---- MODULE Spec2Model ----
(***************************************************************************)
(* A model of the plant-voice backend: the phase registry                  *)
(* (app/services/growth_phase.py), the sensor classifier, the growth       *)
(* comparator (app/services/growth_comparator.py), the pattern analyzer    *)
(* (app/services/pattern_analyzer.py), the scheduler's comparison and      *)
(* message jobs (app/services/scheduler.py), the live sensor reading       *)
(* (app/routes/dashboard.py, app/services/ai_engine.py), the insight       *)
(* prompt and the knowledge service (app/services/knowledge.py).           *)
(*                                                                         *)
(* Sensor values are integers.  The thresholds of PHASE_DATA are integers, *)
(* so every real value compares with them as one of the integers drawn     *)
(* here does (a threshold, or a point strictly between two thresholds).    *)
(* An optional value (Python None) is the empty sequence, a present value  *)
(* v is <<v>>.                                                             *)
(***************************************************************************)
EXTENDS Integers, Sequences, FiniteSets, TLC

VARIABLES
    phase_file,   \* content of current_phase.json
    writer,       \* the update_phase call that has the file open for writing
    last_ok,      \* history: name given to the last successful update_phase
    call,         \* outcome of the last call made to the phase registry
    arg,          \* arguments of the function call under test
    ret,          \* its return value
    latest_comparison,  \* PlantScheduler.latest_comparison
    comparison_file,    \* content of comparison.json
    run,          \* the locals of each generate_growth_comparison in progress
    last_completed,     \* history: id and inputs of the run that assigned last
    last_ended,   \* history: how the run that ended last ended
    reading,      \* the locals of the sensor reading being served
    response,     \* the response to the request made last, once it is there
    latest_message,     \* PlantScheduler.latest_message
    message_run   \* history: the last run of generate_scheduled_message

schedVars == <<latest_comparison, comparison_file, run, last_completed, last_ended>>

liveVars == <<reading, response, latest_message, message_run>>

vars == <<phase_file, writer, last_ok, call, arg, ret, schedVars, liveVars>>

\* the concurrent runs of generate_growth_comparison
Procs == {1, 2}

\* PlantScheduler.__init__ without a comparison.json: no snapshot, no run
SchedulerInit ==
    /\ latest_comparison = <<>>
    /\ comparison_file = <<>>
    /\ run = [p \in Procs |-> [pc |-> "idle"]]
    /\ last_completed = [id |-> 0]
    /\ last_ended = [outcome |-> "none", changed |-> FALSE]

\* no sensor reading being served and none served yet; PlantScheduler.__init__
\* without a messages.json: no message, no run of the message job
LiveInit ==
    /\ reading = [pc |-> "idle"]
    /\ response = <<>>
    /\ latest_message = <<>>
    /\ message_run = [id |-> 0]

----------------------------------------------------------------------------
(* Bounds of the model *)

\* values are drawn within Margin of each threshold
Margin == 1
\* free threshold sets take their six levels from 0..MaxThreshold
MaxThreshold == 2
\* the longest series of values given to _calculate_trend
MaxTrendLen == 4
\* the most hourly samples of one sensor in a 24h window
MaxSamples == 3
\* the longest series of values given to _detect_anomaly
MaxAnomalyLen == 6
\* the most runs of generate_growth_comparison that assign a snapshot
MaxRuns == 2

----------------------------------------------------------------------------
(* growth_phase.py: the phase table *)

\* mutant: the optimal band is stored upside down
Th_band_swapped(cl, lo, omin, omax, hi, ch) ==
    [critical_low |-> cl, low |-> lo, optimal_min |-> omax,
     optimal_max |-> omin, high |-> hi, critical_high |-> ch]

Th(cl, lo, omin, omax, hi, ch) ==
    [critical_low |-> cl, low |-> lo, optimal_min |-> omin,
     optimal_max |-> omax, high |-> hi, critical_high |-> ch]

PHASE_DATA ==
    [germination |->
        [duration_days |-> [min |-> 7, max |-> 14],
         temperature   |-> Th(15, 20, 25, 30, 35, 40),
         humidity      |-> Th(30, 50, 70, 90, 95, 100),
         light         |-> Th(0, 0, 0, 10000, 50000, 100000),
         soil_moisture |-> Th(10, 20, 50, 80, 90, 100)],
     seedling |->
        [duration_days |-> [min |-> 14, max |-> 28],
         temperature   |-> Th(10, 15, 18, 30, 35, 40),
         humidity      |-> Th(30, 50, 70, 90, 95, 100),
         light         |-> Th(0, 1000, 10000, 50000, 80000, 100000),
         soil_moisture |-> Th(10, 20, 50, 70, 90, 100)],
     vegetative |->
        [duration_days |-> [min |-> 30, max |-> 60],
         temperature   |-> Th(10, 15, 22, 30, 35, 40),
         humidity      |-> Th(30, 40, 60, 70, 80, 90),
         light         |-> Th(5000, 10000, 25000, 80000, 100000, 120000),
         soil_moisture |-> Th(10, 30, 50, 80, 90, 100)],
     flowering |->
        [duration_days |-> [min |-> 14, max |-> 28],
         temperature   |-> Th(15, 18, 22, 32, 35, 40),
         humidity      |-> Th(30, 40, 60, 70, 80, 90),
         light         |-> Th(5000, 10000, 25000, 80000, 100000, 120000),
         soil_moisture |-> Th(10, 30, 50, 80, 90, 100)],
     fruiting |->
        [duration_days |-> [min |-> 28, max |-> 42],
         temperature   |-> Th(15, 18, 22, 32, 35, 40),
         humidity      |-> Th(30, 40, 60, 70, 80, 90),
         light         |-> Th(5000, 10000, 25000, 80000, 100000, 120000),
         soil_moisture |-> Th(10, 30, 50, 80, 90, 100)]]

\* get_all_phases: list(PHASE_DATA.keys()), in the table's order
get_all_phases ==
    <<"germination", "seedling", "vegetative", "flowering", "fruiting">>

\* the keys of sensor_key_map
sensor_key_map == {"temperature", "humidity", "light", "soil_moisture"}

ThresholdKeys ==
    {"critical_low", "low", "optimal_min", "optimal_max", "high", "critical_high"}

----------------------------------------------------------------------------
(* growth_phase.py: the phase record on disk *)

\* current_phase.json does not exist
NoFile == "<absent>"
\* current_phase.json exists and json.load raises on it (empty or cut short)
Unreadable == "<unreadable>"
\* otherwise phase_file is the "phase" value of the JSON record in the file

\* the dictionary get_current_phase returns for phase name n
PhaseDict(n) ==
    [name          |-> n,
     duration_days |-> PHASE_DATA[n].duration_days,
     temperature   |-> PHASE_DATA[n].temperature,
     humidity      |-> PHASE_DATA[n].humidity,
     light         |-> PHASE_DATA[n].light,
     soil_moisture |-> PHASE_DATA[n].soil_moisture]

\* mutant: the record on disk is not consulted
get_current_phase_ignores_file(f) == PhaseDict("germination")

get_current_phase(f) ==
    IF f = NoFile
    THEN PhaseDict("germination")
    ELSE IF f = Unreadable
    THEN PhaseDict("germination")
    ELSE IF f \notin DOMAIN PHASE_DATA
    THEN PhaseDict("germination")
    ELSE PhaseDict(f)

----------------------------------------------------------------------------
(* growth_phase.py: the sensor classifier *)

Result(st, sev) == [status |-> st, severity |-> sev]

\* mutant: the boundary value == critical_low falls through to the next rule
Classify_strict(thresholds, sensor_name, phase_name, value) ==
    IF sensor_name = "light" /\ phase_name = "germination"
    THEN IF value <= thresholds.optimal_max THEN Result("optimal", "normal")
         ELSE IF value <= thresholds.high THEN Result("slightly_high", "warning")
         ELSE Result("high", "warning")
    ELSE IF value < thresholds.critical_low THEN Result("critical_low", "critical")
    ELSE IF value <= thresholds.low THEN Result("low", "warning")
    ELSE IF value >= thresholds.critical_high THEN Result("critical_high", "critical")
    ELSE IF value >= thresholds.high THEN Result("high", "warning")
    ELSE IF thresholds.optimal_min <= value /\ value <= thresholds.optimal_max
    THEN Result("optimal", "normal")
    ELSE IF value < thresholds.optimal_min THEN Result("slightly_low", "warning")
    ELSE Result("slightly_high", "warning")

\* mutant: the results of the first two rules are exchanged
Classify_swapped(thresholds, sensor_name, phase_name, value) ==
    IF sensor_name = "light" /\ phase_name = "germination"
    THEN IF value <= thresholds.optimal_max THEN Result("optimal", "normal")
         ELSE IF value <= thresholds.high THEN Result("slightly_high", "warning")
         ELSE Result("high", "warning")
    ELSE IF value <= thresholds.critical_low THEN Result("low", "warning")
    ELSE IF value <= thresholds.low THEN Result("critical_low", "critical")
    ELSE IF value >= thresholds.critical_high THEN Result("critical_high", "critical")
    ELSE IF value >= thresholds.high THEN Result("high", "warning")
    ELSE IF thresholds.optimal_min <= value /\ value <= thresholds.optimal_max
    THEN Result("optimal", "normal")
    ELSE IF value < thresholds.optimal_min THEN Result("slightly_low", "warning")
    ELSE Result("slightly_high", "warning")

\* mutant: light under germination is classified like every other sensor
Classify_no_inversion(thresholds, sensor_name, phase_name, value) ==
    IF value <= thresholds.critical_low THEN Result("critical_low", "critical")
    ELSE IF value <= thresholds.low THEN Result("low", "warning")
    ELSE IF value >= thresholds.critical_high THEN Result("critical_high", "critical")
    ELSE IF value >= thresholds.high THEN Result("high", "warning")
    ELSE IF thresholds.optimal_min <= value /\ value <= thresholds.optimal_max
    THEN Result("optimal", "normal")
    ELSE IF value < thresholds.optimal_min THEN Result("slightly_low", "warning")
    ELSE Result("slightly_high", "warning")

\* analyze_sensor_for_phase, from the thresholds on: the status and severity
\* returned for value under thresholds
Classify(thresholds, sensor_name, phase_name, value) ==
    IF sensor_name = "light" /\ phase_name = "germination"
    THEN IF value <= thresholds.optimal_max THEN Result("optimal", "normal")
         ELSE IF value <= thresholds.high THEN Result("slightly_high", "warning")
         ELSE Result("high", "warning")
    ELSE IF value <= thresholds.critical_low THEN Result("critical_low", "critical")
    ELSE IF value <= thresholds.low THEN Result("low", "warning")
    ELSE IF value >= thresholds.critical_high THEN Result("critical_high", "critical")
    ELSE IF value >= thresholds.high THEN Result("high", "warning")
    ELSE IF thresholds.optimal_min <= value /\ value <= thresholds.optimal_max
    THEN Result("optimal", "normal")
    ELSE IF value < thresholds.optimal_min THEN Result("slightly_low", "warning")
    ELSE Result("slightly_high", "warning")

\* analyze_sensor_for_phase(sensor_name, value) when current_phase.json holds f;
\* the phase name is part of the returned message
analyze_sensor_for_phase(f, sensor_name, value) ==
    LET phase == get_current_phase(f)
    IN  IF sensor_name \notin sensor_key_map
        THEN [status |-> "unknown", severity |-> "normal", phase |-> phase.name]
        ELSE LET r == Classify(phase[sensor_name], sensor_name, phase.name, value)
             IN  [status |-> r.status, severity |-> r.severity, phase |-> phase.name]

----------------------------------------------------------------------------
(* growth_comparator.py: the comparator's status *)

\* mutant: the boundary value == critical_low is low
_get_status_strict(value, thresholds, sensor_name, phase_name) ==
    IF sensor_name = "light" /\ phase_name = "germination"
    THEN IF value <= thresholds.optimal_max THEN "optimal"
         ELSE IF value <= thresholds.high THEN "slightly_high"
         ELSE "high"
    ELSE IF value < thresholds.critical_low THEN "critical_low"
    ELSE IF value <= thresholds.low THEN "low"
    ELSE IF value < thresholds.optimal_min THEN "slightly_low"
    ELSE IF value <= thresholds.optimal_max THEN "optimal"
    ELSE IF value < thresholds.high THEN "slightly_high"
    ELSE IF value < thresholds.critical_high THEN "high"
    ELSE "critical_high"

\* GrowthComparator._get_status
_get_status(value, thresholds, sensor_name, phase_name) ==
    IF sensor_name = "light" /\ phase_name = "germination"
    THEN IF value <= thresholds.optimal_max THEN "optimal"
         ELSE IF value <= thresholds.high THEN "slightly_high"
         ELSE "high"
    ELSE IF value <= thresholds.critical_low THEN "critical_low"
    ELSE IF value <= thresholds.low THEN "low"
    ELSE IF value < thresholds.optimal_min THEN "slightly_low"
    ELSE IF value <= thresholds.optimal_max THEN "optimal"
    ELSE IF value < thresholds.high THEN "slightly_high"
    ELSE IF value < thresholds.critical_high THEN "high"
    ELSE "critical_high"

----------------------------------------------------------------------------
(* Inputs *)

\* what current_phase.json can hold when a call starts: nothing, an unreadable
\* text, a record written by update_phase, or a record naming no phase of the
\* table (left by another version of the table)
FileContents == {NoFile, Unreadable, "dormant"} \cup DOMAIN PHASE_DATA

\* the values within Margin of a threshold of th
ValuesNear(th) ==
    UNION {(th[k] - Margin)..(th[k] + Margin) : k \in ThresholdKeys}

\* threshold sets in the order the data model requires
Ordered(th) ==
    /\ th.critical_low <= th.low
    /\ th.low <= th.optimal_min
    /\ th.optimal_min <= th.optimal_max
    /\ th.optimal_max <= th.high
    /\ th.high <= th.critical_high

OrderedThresholds ==
    {th \in [ThresholdKeys -> 0..MaxThreshold] : Ordered(th)}

\* the calls of analyze_sensor_for_phase under test, with the file they read
AnalyzeArgs ==
    {[op |-> "analyze_sensor_for_phase", file |-> f, sensor_name |-> s, value |-> v] :
        f \in FileContents, s \in sensor_key_map, v \in {0}} \cup
    UNION {
        {[op |-> "analyze_sensor_for_phase", file |-> f, sensor_name |-> s, value |-> v] :
            v \in ValuesNear(get_current_phase(f)[s])} :
        f \in FileContents, s \in sensor_key_map} \cup
    {[op |-> "analyze_sensor_for_phase", file |-> f, sensor_name |-> s, value |-> 7] :
        f \in FileContents, s \in {"ph", "tds"}}

\* the calls of _get_status under test: the thresholds of the phase table with
\* their own sensor and phase, and free ordered threshold sets
GetStatusArgs ==
    UNION {
        {[op |-> "_get_status", value |-> v, thresholds |-> PHASE_DATA[p][s],
          sensor_name |-> s, phase_name |-> p] :
            v \in ValuesNear(PHASE_DATA[p][s])} :
        p \in DOMAIN PHASE_DATA, s \in sensor_key_map} \cup
    {[op |-> "_get_status", value |-> v, thresholds |-> th,
      sensor_name |-> s, phase_name |-> p] :
        v \in (0 - Margin)..(MaxThreshold + Margin), th \in OrderedThresholds,
        s \in {"temperature", "light"}, p \in {"germination", "vegetative"}}

NotCalled == [done |-> FALSE]

----------------------------------------------------------------------------
(* The function calls under test: Init draws the arguments, one action per  *)
(* function applies it.                                                     *)

CallAnalyze ==
    /\ arg.op = "analyze_sensor_for_phase"
    /\ ~ret.done
    /\ phase_file = arg.file
    /\ LET r == analyze_sensor_for_phase(phase_file, arg.sensor_name, arg.value)
       IN  ret' = [done |-> TRUE, status |-> r.status, severity |-> r.severity,
                   phase |-> r.phase]
    /\ UNCHANGED <<phase_file, writer, last_ok, call, arg, schedVars, liveVars>>

CallGetStatus ==
    /\ arg.op = "_get_status"
    /\ ~ret.done
    /\ ret' = [done |-> TRUE,
               status |-> _get_status(arg.value, arg.thresholds,
                                      arg.sensor_name, arg.phase_name)]
    /\ UNCHANGED <<phase_file, writer, last_ok, call, arg, schedVars, liveVars>>

Idle == [pc |-> "idle"]
NoCall == [op |-> "none"]

InitFun ==
    /\ arg \in AnalyzeArgs \cup GetStatusArgs
    /\ ret = NotCalled
    /\ phase_file = IF arg.op = "analyze_sensor_for_phase" THEN arg.file ELSE NoFile
    /\ writer = Idle
    /\ last_ok = ""
    /\ call = NoCall
    /\ SchedulerInit
    /\ LiveInit

NextFun ==
    \/ CallAnalyze
    \/ CallGetStatus

SpecFun == InitFun /\ [][NextFun]_vars

----------------------------------------------------------------------------
(* The sensor classifier and the comparator's status: C1 to C4 *)

\* the first rule of a list <<condition, status>> whose condition holds
FirstMatch(rules) ==
    rules[CHOOSE i \in 1..Len(rules) :
            rules[i][1] /\ \A j \in 1..(i - 1) : ~rules[j][1]][2]

\* the precedence of the general case, as the specification lists it
Precedence(th, v) ==
    << <<v <= th.critical_low, "critical_low">>,
       <<v <= th.low, "low">>,
       <<v >= th.critical_high, "critical_high">>,
       <<v >= th.high, "high">>,
       <<th.optimal_min <= v /\ v <= th.optimal_max, "optimal">>,
       <<v < th.optimal_min, "slightly_low">>,
       <<TRUE, "slightly_high">> >>

AnalyzeReturned ==
    arg.op = "analyze_sensor_for_phase" /\ ret.done /\ arg.sensor_name \in sensor_key_map

GetStatusReturned == arg.op = "_get_status" /\ ret.done

InvertedCase(sensor_name, phase_name) ==
    sensor_name = "light" /\ phase_name = "germination"

\* C1: for every sensor and phase other than light under germination, and every
\* value, analyze_sensor_for_phase returns the status of the first rule of the
\* precedence that matches; a value equal to critical_low is critical_low.
C1_FirstMatchingRule ==
    (AnalyzeReturned /\ ~InvertedCase(arg.sensor_name, ret.phase)) =>
        LET th == PHASE_DATA[ret.phase][arg.sensor_name]
        IN  /\ ret.status = FirstMatch(Precedence(th, arg.value))
            /\ (arg.value = th.critical_low => ret.status = "critical_low")

C1_Witness ==
    /\ AnalyzeReturned
    /\ arg.sensor_name = "temperature"
    /\ ret.phase = "flowering"
    /\ arg.value = PHASE_DATA["flowering"].temperature.critical_low
    /\ ret.status = "critical_low"

\* the rank of a status: optimal < slightly < low/high < critical
Rank(status) ==
    CASE status = "optimal" -> 0
      [] status \in {"slightly_low", "slightly_high"} -> 1
      [] status \in {"low", "high"} -> 2
      [] status \in {"critical_low", "critical_high"} -> 3

\* the distance of v from the band [optimal_min, optimal_max]
Distance(th, v) ==
    IF v < th.optimal_min THEN th.optimal_min - v
    ELSE IF v > th.optimal_max THEN v - th.optimal_max
    ELSE 0

\* v2 is on the side of v1 (or v1 is in the band) and at least as far from the band
Further(th, v1, v2) ==
    /\ Distance(th, v2) >= Distance(th, v1)
    /\ \/ Distance(th, v1) = 0
       \/ v1 < th.optimal_min /\ v2 < th.optimal_min
       \/ v1 > th.optimal_max /\ v2 > th.optimal_max

\* C2: for every phase and sensor of the phase table, a value further from the
\* optimal band than another value on the same side never has a lower status rank.
C2_MonotonicRank ==
    AnalyzeReturned =>
        LET th == PHASE_DATA[ret.phase][arg.sensor_name]
        IN  \A v1 \in ValuesNear(th) :
                Further(th, v1, arg.value) =>
                    Rank(ret.status) >=
                        Rank(analyze_sensor_for_phase(arg.file, arg.sensor_name, v1).status)

C2_Witness ==
    /\ AnalyzeReturned
    /\ arg.sensor_name = "humidity"
    /\ ret.phase = "vegetative"
    /\ arg.value = PHASE_DATA["vegetative"].humidity.critical_high
    /\ Rank(ret.status) = 3
    /\ Rank(analyze_sensor_for_phase(arg.file, "humidity",
                PHASE_DATA["vegetative"].humidity.high).status) = 2

\* C3: under germination a light value v with 0 <= v <= optimal_max is optimal,
\* and every light value is optimal, slightly_high or high: never critical_high,
\* critical_low or low; in the classifier and in the comparator's status.
C3_GerminationLight ==
    /\ (AnalyzeReturned /\ InvertedCase(arg.sensor_name, ret.phase)) =>
            /\ ret.status \in {"optimal", "slightly_high", "high"}
            /\ (0 <= arg.value /\ arg.value <= PHASE_DATA["germination"].light.optimal_max)
                    => ret.status = "optimal"
    /\ (GetStatusReturned /\ InvertedCase(arg.sensor_name, arg.phase_name)) =>
            /\ ret.status \in {"optimal", "slightly_high", "high"}
            /\ (0 <= arg.value /\ arg.value <= arg.thresholds.optimal_max)
                    => ret.status = "optimal"

C3_Witness ==
    /\ AnalyzeReturned
    /\ InvertedCase(arg.sensor_name, ret.phase)
    /\ arg.value >= PHASE_DATA["germination"].light.critical_high
    /\ ret.status = "high"

\* C4: for every ordered threshold set, sensor, phase name and value, _get_status
\* returns the status the classifier's rules give for the same value and thresholds.
C4_ComparatorMatchesClassifier ==
    (GetStatusReturned /\ Ordered(arg.thresholds)) =>
        ret.status = Classify(arg.thresholds, arg.sensor_name,
                              arg.phase_name, arg.value).status

\* the call was made with the thresholds the table has for its phase and sensor
ShippedThresholds ==
    /\ arg.phase_name \in DOMAIN PHASE_DATA
    /\ arg.sensor_name \in sensor_key_map
    /\ arg.thresholds = PHASE_DATA[arg.phase_name][arg.sensor_name]

\* C27: for every phase and sensor of the shipped table and every value,
\* _get_status returns the status analyze_sensor_for_phase gives the same
\* value when current_phase.json names that phase.
C27_SnapshotMatchesLive ==
    (GetStatusReturned /\ ShippedThresholds) =>
        ret.status = analyze_sensor_for_phase(arg.phase_name, arg.sensor_name,
                                              arg.value).status

C27_Witness ==
    /\ GetStatusReturned
    /\ ShippedThresholds
    /\ arg.phase_name = "seedling"
    /\ arg.sensor_name = "humidity"
    /\ arg.value = PHASE_DATA["seedling"].humidity.critical_low
    /\ ret.status = "critical_low"

----------------------------------------------------------------------------
(* The phase registry: update_phase, get_current_phase and the admin route. *)
(* current_phase.json is read and written through the file system: a read   *)
(* by another server process, or a stop of the writing process, can fall    *)
(* between open(PHASE_FILE, "w"), which empties the file, and the end of    *)
(* json.dump.                                                               *)

\* the names update_phase is called with
UpdateNames == DOMAIN PHASE_DATA \cup {"dormant"}

\* mutant: no validation of the name
update_phase_rejects_nothing(phase_name) == FALSE

\* update_phase: the name is refused (ValueError) before the file is opened
update_phase_rejects(phase_name) == phase_name \notin DOMAIN PHASE_DATA

\* admin.update_phase: the route's own validation against get_all_phases()
admin_rejects(phase_name) ==
    \A i \in 1..Len(get_all_phases) : get_all_phases[i] # phase_name

UpdateOutcome(via, name, outcome, valid, before, after) ==
    [op |-> "update_phase", via |-> via, name |-> name, outcome |-> outcome,
     valid |-> valid, before |-> before, after |-> after]

\* update_phase(name) raises ValueError, naming the valid phases
UpdatePhaseRaises(name) ==
    /\ update_phase_rejects(name)
    /\ UNCHANGED <<phase_file, writer, last_ok>>
    /\ call' = UpdateOutcome("service", name, "ValueError", get_all_phases,
                             phase_file, phase_file')
    /\ UNCHANGED <<arg, ret, schedVars, liveVars>>

\* POST /update-phase with a wrong password: 401
AdminUnauthorized(name) ==
    /\ UNCHANGED <<phase_file, writer, last_ok>>
    /\ call' = UpdateOutcome("route", name, "401", <<>>, phase_file, phase_file')
    /\ UNCHANGED <<arg, ret, schedVars, liveVars>>

\* POST /update-phase with an invalid phase: 400, naming the valid phases
AdminInvalidPhase(name) ==
    /\ admin_rejects(name)
    /\ UNCHANGED <<phase_file, writer, last_ok>>
    /\ call' = UpdateOutcome("route", name, "400", get_all_phases,
                             phase_file, phase_file')
    /\ UNCHANGED <<arg, ret, schedVars, liveVars>>

\* update_phase(name), called directly or by the route after its checks, up to
\* open(PHASE_FILE, "w"): the file is emptied
UpdatePhaseOpen(via, name) ==
    /\ writer.pc = "idle"
    /\ via = "route" => ~admin_rejects(name)
    /\ ~update_phase_rejects(name)
    /\ writer' = [pc |-> "opened", via |-> via, name |-> name, before |-> phase_file]
    /\ phase_file' = Unreadable
    /\ UNCHANGED <<last_ok, call, arg, ret, schedVars, liveVars>>

\* json.dump and the close of the file: the record is on disk, the call returns
UpdatePhaseDump ==
    /\ writer.pc = "opened"
    /\ phase_file' = writer.name
    /\ last_ok' = writer.name
    /\ writer' = Idle
    /\ call' = UpdateOutcome(writer.via, writer.name, "ok", <<>>,
                             writer.before, phase_file')
    /\ UNCHANGED <<arg, ret, schedVars, liveVars>>

\* json.dump or the close raises (the write fails): the call ends with the
\* exception (the route answers 500) and the file stays as open left it
UpdatePhaseDumpFails ==
    /\ writer.pc = "opened"
    /\ UNCHANGED <<phase_file, last_ok>>
    /\ writer' = Idle
    /\ call' = UpdateOutcome(writer.via, writer.name, "IOError", <<>>,
                             writer.before, phase_file')
    /\ UNCHANGED <<arg, ret, schedVars, liveVars>>

\* get_current_phase(), in any process
GetCurrentPhase ==
    /\ UNCHANGED <<phase_file, writer, last_ok>>
    /\ call' = [op |-> "get_current_phase",
                name |-> get_current_phase(phase_file).name,
                seen |-> phase_file,
                after |-> phase_file',
                last_ok |-> last_ok,
                overlap |-> writer.pc = "opened",
                old |-> IF writer.pc = "opened"
                        THEN get_current_phase(writer.before).name ELSE "",
                new |-> IF writer.pc = "opened" THEN writer.name ELSE ""]
    /\ UNCHANGED <<arg, ret, schedVars, liveVars>>

NoArg == [op |-> "none"]

\* the record, if any, that an earlier run of the server left on disk; a record
\* naming a phase of the table was written by update_phase
Init ==
    /\ phase_file \in FileContents
    /\ writer = Idle
    /\ last_ok = IF phase_file \in DOMAIN PHASE_DATA THEN phase_file ELSE ""
    /\ call = NoCall
    /\ arg = NoArg
    /\ ret = NotCalled
    /\ SchedulerInit
    /\ LiveInit

Next ==
    \/ \E name \in UpdateNames : UpdatePhaseRaises(name)
    \/ \E name \in UpdateNames : AdminUnauthorized(name)
    \/ \E name \in UpdateNames : AdminInvalidPhase(name)
    \/ \E via \in {"service", "route"}, name \in UpdateNames : UpdatePhaseOpen(via, name)
    \/ UpdatePhaseDump
    \/ UpdatePhaseDumpFails
    \/ GetCurrentPhase

Spec == Init /\ [][Next]_vars

----------------------------------------------------------------------------
(* The phase registry: C5 to C7 *)

PhaseNames == {"germination", "seedling", "vegetative", "flowering", "fruiting"}

GetReturned == call.op = "get_current_phase"

\* C5: get_current_phase returns germination when no record exists or the record
\* is unreadable or names an unknown phase, and otherwise the name given to the
\* most recent successful update_phase; the read leaves the stored record as it was.
C5_LastWriteWins ==
    GetReturned =>
        /\ call.name = IF call.seen \in PhaseNames THEN call.last_ok ELSE "germination"
        /\ call.after = call.seen

C5_Witness ==
    /\ GetReturned
    /\ call.name = "flowering"
    /\ call.last_ok = "flowering"
    /\ ~call.overlap

\* C6: an update_phase with a name outside the five phases is rejected with an
\* error listing the valid names and nothing is persisted: the file is never
\* opened for it and the stored record is the same after the call as before.
C6_InvalidNameRejected ==
    /\ (call.op = "update_phase" /\ call.name \notin PhaseNames /\ call.outcome # "401") =>
            /\ call.outcome \in {"ValueError", "400"}
            /\ {call.valid[i] : i \in 1..Len(call.valid)} = PhaseNames
            /\ call.after = call.before
    /\ (writer.pc = "opened" => writer.name \in PhaseNames)

C6_Witness ==
    /\ call.op = "update_phase"
    /\ call.name = "dormant"
    /\ call.outcome = "ValueError"
    /\ call.before = "flowering"
    /\ phase_file = "flowering"

\* C7: a get_current_phase that overlaps update_phase(new) returns the phase stored
\* before the update or new, never another phase.
C7_AtomicReplace ==
    (GetReturned /\ call.overlap) => call.name \in {call.old, call.new}

----------------------------------------------------------------------------
(* pattern_analyzer.py: arithmetic.  A mean is the exact quotient of a sum   *)
(* and a count (statistics.mean is exact); comparisons of quotients are made *)
(* by cross-multiplication.                                                  *)

RECURSIVE Sum(_)
Sum(values) ==
    IF values = <<>> THEN 0 ELSE Head(values) + Sum(Tail(values))

Abs(x) == IF x < 0 THEN 0 - x ELSE x

\* num / den > k, for den # 0
QuotientGt(num, den, k) ==
    IF den > 0 THEN num > k * den ELSE num < k * den

\* num / den < k, for den # 0
QuotientLt(num, den, k) ==
    IF den > 0 THEN num < k * den ELSE num > k * den

\* values[:k] and values[k:]
Prefix(values, k) == SubSeq(values, 1, k)
Suffix(values, k) == SubSeq(values, k + 1, Len(values))

\* An optional number: <<>> is None, <<v>> is the number v
None == <<>>
Some(v) == <<v>>
\* Python truthiness of an optional number: None and 0 are false
Truthy(x) == x # None /\ x[1] # 0

Min(S) == CHOOSE x \in S : \A y \in S : x <= y
Max(S) == CHOOSE x \in S : \A y \in S : x >= y
Range(f) == {f[i] : i \in DOMAIN f}

\* a / b for b > 0 rounded to the nearest integer, ties to the even one.
\* Python rounds the binary value of a float, so a decimal tie such as
\* round(4.55, 1) goes either way there; the inputs drawn here give no such tie
\* (the snapshots of every window drawn were compared with the Python results).
RoundDiv(a, b) ==
    LET q == a \div b
        r == a % b
    IN  IF 2 * r < b THEN q
        ELSE IF 2 * r > b THEN q + 1
        ELSE IF q % 2 = 0 THEN q ELSE q + 1

\* num / den for den # 0, rounded as RoundDiv
RoundQuot(num, den) ==
    IF den > 0 THEN RoundDiv(num, den) ELSE RoundDiv(0 - num, 0 - den)

\* the largest r in lo..hi-1 with r * r <= n, given lo * lo <= n < hi * hi
RECURSIVE SqrtBetween(_, _, _)
SqrtBetween(n, lo, hi) ==
    IF hi - lo <= 1 THEN lo
    ELSE LET mid == (lo + hi) \div 2
         IN  IF mid * mid <= n THEN SqrtBetween(n, mid, hi)
             ELSE SqrtBetween(n, lo, mid)

\* 46340 * 46340 is the largest square below 2^31
FloorSqrt(n) == SqrtBetween(n, 0, 46340)

\* n * sum(x^2) - sum(x)^2: the sample variance is this over n * (n - 1)
SumSq(values) == Sum([i \in 1..Len(values) |-> values[i] * values[i]])
SpreadNum(values) ==
    Len(values) * SumSq(values) - Sum(values) * Sum(values)

\* round(x, 2) of an integer x, and of a quotient, counted in hundredths
Round2(num, den) == RoundQuot(100 * num, den)

\* round(stdev(values), 2) in hundredths, for len(values) > 1:
\* round(x) = floor((floor(2x) + 1) / 2) with 2x = sqrt(40000 * variance)
stdev_round2(values) ==
    LET n == Len(values)
    IN  (FloorSqrt((40000 * SpreadNum(values)) \div (n * (n - 1))) + 1) \div 2


\* PatternAnalyzer._calculate_trend: with h = len // 2, m = len - h, s1 and s2
\* the sums of the halves, diff_percent = (s2/m - s1/h) / (s1/h) * 100
\*                                      = 100 * (s2*h - s1*m) / (m*s1)
_calculate_trend(values) ==
    IF Len(values) < 2 THEN "stable"
    ELSE LET h  == Len(values) \div 2
             m  == Len(values) - h
             s1 == Sum(Prefix(values, h))
             s2 == Sum(Suffix(values, h))
         IN  IF s1 = 0 THEN "stable"
             ELSE IF QuotientGt(100 * (s2 * h - s1 * m), m * s1, 10) THEN "increasing"
             ELSE IF QuotientLt(100 * (s2 * h - s1 * m), m * s1, 0 - 10) THEN "decreasing"
             ELSE "stable"

----------------------------------------------------------------------------
(* pattern_analyzer.py: analyze_daily_patterns.  A record of hourly_data is  *)
(* [sensor_type, hour, value] with value an optional number; its "time" is   *)
(* copied by the analyzer and never read, and is left out.                   *)

\* the keys of the sensors dict, in the order of insertion (lines 21-25)
RECURSIVE SensorOrder(_)
SensorOrder(hourly_data) ==
    IF hourly_data = <<>> THEN <<>>
    ELSE LET n    == Len(hourly_data)
             rest == SensorOrder(SubSeq(hourly_data, 1, n - 1))
             s    == hourly_data[n].sensor_type
         IN  IF s \in Range(rest) THEN rest ELSE Append(rest, s)

\* sensors[sensor]: the records of one sensor, in input order (lines 26-30)
RECURSIVE SensorData(_, _)
SensorData(hourly_data, sensor) ==
    IF hourly_data = <<>> THEN <<>>
    ELSE LET r    == Head(hourly_data)
             rest == SensorData(Tail(hourly_data), sensor)
         IN  IF r.sensor_type = sensor
             THEN <<[hour |-> r.hour, value |-> r.value]>> \o rest
             ELSE rest

\* [d["value"] for d in data if d["value"] is not None]
RECURSIVE NonNullValues(_)
NonNullValues(data) ==
    IF data = <<>> THEN <<>>
    ELSE IF Head(data).value = None THEN NonNullValues(Tail(data))
    ELSE <<Head(data).value[1]>> \o NonNullValues(Tail(data))

\* [d["value"] for d in data if d["value"]], restricted to the hours in H
RECURSIVE TruthyValues(_, _)
TruthyValues(data, H) ==
    IF data = <<>> THEN <<>>
    ELSE IF Head(data).hour \in H /\ Truthy(Head(data).value)
         THEN <<Head(data).value[1]>> \o TruthyValues(Tail(data), H)
         ELSE TruthyValues(Tail(data), H)

\* max(data, key=value if value else 0)["hour"]: the first record of the largest key
peak_hour(data) ==
    LET key(i) == IF Truthy(data[i].value) THEN data[i].value[1] ELSE 0
        i == CHOOSE i \in 1..Len(data) :
                 /\ \A j \in 1..Len(data) : key(j) <= key(i)
                 /\ \A j \in 1..(i - 1) : key(j) < key(i)
    IN  data[i].hour

\* min(data, key=value if value else inf)["hour"]: the first record of the smallest key
low_hour(data) ==
    LET inf(i)     == ~Truthy(data[i].value)
        less(i, j) == ~inf(i) /\ (inf(j) \/ data[i].value[1] < data[j].value[1])
        i == CHOOSE i \in 1..Len(data) :
                 /\ \A j \in 1..Len(data) : ~less(j, i)
                 /\ \A j \in 1..(i - 1) : less(i, j)
    IN  data[i].hour

\* mutant: only a sensor without any non-null value is skipped
SensorSkipped_no_values(data) == NonNullValues(data) = <<>>

\* lines 43-49: the sensor is passed over
SensorSkipped(data) == Len(data) < 2 \/ NonNullValues(data) = <<>>

\* lines 51-65: the statistics of one sensor; avg and std_dev in hundredths
SensorAnalysis(data) ==
    LET values == NonNullValues(data)
    IN  [min       |-> Min(Range(values)),
         max       |-> Max(Range(values)),
         avg       |-> Round2(Sum(values), Len(values)),
         range     |-> Max(Range(values)) - Min(Range(values)),
         trend     |-> _calculate_trend(values),
         std_dev   |-> IF Len(values) > 1 THEN stdev_round2(values) ELSE 0,
         peak_hour |-> peak_hour(data),
         low_hour  |-> low_hour(data)]

\* _detect_daily_pattern: None, or the first pattern found.  The percentage
\* printed in a description is kept in tenths, as "{:.1f}" prints it.
_detect_daily_pattern(sensor, data) ==
    LET morning   == TruthyValues(data, 6..11)
        afternoon == TruthyValues(data, 12..17)
        num == Sum(afternoon) * Len(morning) - Sum(morning) * Len(afternoon)
        den == Len(afternoon) * Sum(morning)
        \* diff_percent = 100 * num / den, and 0 when the morning mean is 0
        gt(k) == den # 0 /\ QuotientGt(100 * num, den, k)
        lt(k) == den # 0 /\ QuotientLt(100 * num, den, k)
        tenths == IF den = 0 THEN 0 ELSE RoundQuot(1000 * num, den)
    IN  IF morning = <<>> \/ afternoon = <<>> THEN None
        ELSE IF sensor = "temperature" /\ gt(10)
             THEN Some([sensor |-> sensor, type |-> "daily_cycle",
                        description |-> <<"Temperature rises in afternoon", tenths>>])
        ELSE IF sensor = "humidity" /\ lt(0 - 10)
             THEN Some([sensor |-> sensor, type |-> "daily_cycle",
                        description |-> <<"Humidity drops in afternoon", tenths>>])
        ELSE IF sensor = "light" /\ gt(50)
             THEN Some([sensor |-> sensor, type |-> "daily_cycle",
                        description |-> <<"Light peaks in afternoon as expected">>])
        ELSE None

\* mutant: a value further than 1 standard deviation from the mean is an outlier
_detect_anomaly_one_deviation(sensor, values) ==
    LET n == Len(values)
        S == Sum(values)
        Q == SpreadNum(values)
        outlier(i) == Q > 0 /\ (n * values[i] - S) * (n * values[i] - S) * (n - 1) > n * Q
        sudden(i)  == /\ values[i - 1] # 0
                      /\ 100 * Abs(values[i] - values[i - 1]) > 50 * Abs(values[i - 1])
        outliers == {i \in 1..n : outlier(i)}
        suddens  == {i \in 2..n : sudden(i)}
    IN  IF n < 3 THEN None
        ELSE IF outliers # {}
             THEN Some([sensor |-> sensor, type |-> "outlier",
                        description |-> <<"Unusual reading detected", 10 * values[Min(outliers)],
                                          RoundQuot(10 * S, n)>>])
        ELSE IF suddens # {}
             THEN LET i == Min(suddens)
                  IN  Some([sensor |-> sensor, type |-> "sudden_change",
                            description |-> <<"Sudden change detected",
                                RoundQuot(1000 * (values[i] - values[i - 1]), values[i - 1])>>])
        ELSE None

\* mutant: the sudden change is looked for before the outlier
_detect_anomaly_sudden_first(sensor, values) ==
    LET n == Len(values)
        S == Sum(values)
        Q == SpreadNum(values)
        outlier(i) == Q > 0 /\ (n * values[i] - S) * (n * values[i] - S) * (n - 1) > 4 * n * Q
        sudden(i)  == /\ values[i - 1] # 0
                      /\ 100 * Abs(values[i] - values[i - 1]) > 50 * Abs(values[i - 1])
        outliers == {i \in 1..n : outlier(i)}
        suddens  == {i \in 2..n : sudden(i)}
    IN  IF n < 3 THEN None
        ELSE IF suddens # {}
             THEN LET i == Min(suddens)
                  IN  Some([sensor |-> sensor, type |-> "sudden_change",
                            description |-> <<"Sudden change detected",
                                RoundQuot(1000 * (values[i] - values[i - 1]), values[i - 1])>>])
        ELSE IF outliers # {}
             THEN Some([sensor |-> sensor, type |-> "outlier",
                        description |-> <<"Unusual reading detected", 10 * values[Min(outliers)],
                                          RoundQuot(10 * S, n)>>])
        ELSE None

\* mutant: two values are enough
_detect_anomaly_from_two(sensor, values) ==
    LET n == Len(values)
        S == Sum(values)
        Q == SpreadNum(values)
        outlier(i) == Q > 0 /\ (n * values[i] - S) * (n * values[i] - S) * (n - 1) > 4 * n * Q
        sudden(i)  == /\ values[i - 1] # 0
                      /\ 100 * Abs(values[i] - values[i - 1]) > 50 * Abs(values[i - 1])
        outliers == {i \in 1..n : outlier(i)}
        suddens  == {i \in 2..n : sudden(i)}
    IN  IF n < 2 THEN None
        ELSE IF outliers # {}
             THEN Some([sensor |-> sensor, type |-> "outlier",
                        description |-> <<"Unusual reading detected", 10 * values[Min(outliers)],
                                          RoundQuot(10 * S, n)>>])
        ELSE IF suddens # {}
             THEN LET i == Min(suddens)
                  IN  Some([sensor |-> sensor, type |-> "sudden_change",
                            description |-> <<"Sudden change detected",
                                RoundQuot(1000 * (values[i] - values[i - 1]), values[i - 1])>>])
        ELSE None

\* _detect_anomaly: None, the first value further than 2 standard deviations
\* from the mean, or else the first change of more than 50% between neighbours.
\* |val - S/n| > 2 * sqrt(Q / (n(n-1)))  <=>  (n*val - S)^2 * (n-1) > 4 * n * Q
_detect_anomaly(sensor, values) ==
    LET n == Len(values)
        S == Sum(values)
        Q == SpreadNum(values)
        outlier(i) == Q > 0 /\ (n * values[i] - S) * (n * values[i] - S) * (n - 1) > 4 * n * Q
        sudden(i)  == /\ values[i - 1] # 0
                      /\ 100 * Abs(values[i] - values[i - 1]) > 50 * Abs(values[i - 1])
        outliers == {i \in 1..n : outlier(i)}
        suddens  == {i \in 2..n : sudden(i)}
    IN  IF n < 3 THEN None
        ELSE IF outliers # {}
             THEN Some([sensor |-> sensor, type |-> "outlier",
                        description |-> <<"Unusual reading detected", 10 * values[Min(outliers)],
                                          RoundQuot(10 * S, n)>>])
        ELSE IF suddens # {}
             THEN LET i == Min(suddens)
                  IN  Some([sensor |-> sensor, type |-> "sudden_change",
                            description |-> <<"Sudden change detected",
                                RoundQuot(1000 * (values[i] - values[i - 1]), values[i - 1])>>])
        ELSE None

\* {d["hour"]: d["value"] for d in data if d["value"]}: a later record replaces
\* an earlier one of the same hour
ByHour(data) ==
    LET truthy == {i \in 1..Len(data) : Truthy(data[i].value)}
    IN  [h \in {data[i].hour : i \in truthy} |->
            data[Max({i \in truthy : data[i].hour = h})].value[1]]

RECURSIVE Sorted(_)
Sorted(S) == IF S = {} THEN <<>> ELSE <<Min(S)>> \o Sorted(S \ {Min(S)})

\* _detect_correlations, lines 235-265
temperature_humidity(hourly_data) ==
    LET temp_by_hour  == ByHour(SensorData(hourly_data, "temperature"))
        humid_by_hour == ByHour(SensorData(hourly_data, "humidity"))
        hours_list    == Sorted(DOMAIN temp_by_hour \cap DOMAIN humid_by_hour)
        rises == {i \in 2..Len(hours_list) :
                     temp_by_hour[hours_list[i]] > temp_by_hour[hours_list[i - 1]]}
        temp_increases  == Cardinality(rises)
        humid_decreases == Cardinality({i \in rises :
                     humid_by_hour[hours_list[i]] < humid_by_hour[hours_list[i - 1]]})
    IN  IF /\ {"temperature", "humidity"} \subseteq Range(SensorOrder(hourly_data))
           /\ Len(hours_list) >= 3
           /\ temp_increases > 0
           /\ 10 * humid_decreases > 6 * temp_increases
        THEN <<[sensors |-> <<"temperature", "humidity">>, type |-> "inverse"]>>
        ELSE <<>>

\* _detect_correlations, lines 268-281
soil_moisture_trend(hourly_data) ==
    LET values == TruthyValues(SensorData(hourly_data, "soil_moisture"), 0..23)
    IN  IF /\ "soil_moisture" \in Range(SensorOrder(hourly_data))
           /\ Len(values) >= 3
           /\ _calculate_trend(values) = "decreasing"
           /\ values[1] - values[Len(values)] > Len(values)
        THEN <<[sensors |-> <<"soil_moisture">>, type |-> "trend_warning",
                description |-> <<"Soil moisture declining",
                    RoundQuot(10 * (values[1] - values[Len(values)]), Len(values))>>]>>
        ELSE <<>>

_detect_correlations(hourly_data) ==
    temperature_humidity(hourly_data) \o soil_moisture_trend(hourly_data)

\* the sensors of the input that are analysed, in the order of the loop
Analysed(hourly_data) ==
    SelectSeq(SensorOrder(hourly_data),
              LAMBDA s : ~SensorSkipped(SensorData(hourly_data, s)))

RECURSIVE Concat(_)
Concat(seqs) == IF seqs = <<>> THEN <<>> ELSE Head(seqs) \o Concat(Tail(seqs))

\* PatternAnalyzer.analyze_daily_patterns
analyze_daily_patterns(hourly_data) ==
    IF hourly_data = <<>> THEN [success |-> FALSE, error |-> "No data available"]
    ELSE LET analysed == Analysed(hourly_data)
             data(s)  == SensorData(hourly_data, s)
         IN  [success      |-> TRUE,
              period       |-> "24h",
              sensors      |-> [s \in Range(analysed) |-> SensorAnalysis(data(s))],
              patterns     |-> Concat([i \in 1..Len(analysed) |->
                                   _detect_daily_pattern(analysed[i], data(analysed[i]))]),
              anomalies    |-> Concat([i \in 1..Len(analysed) |->
                                   _detect_anomaly(analysed[i], NonNullValues(data(analysed[i])))]),
              correlations |-> _detect_correlations(hourly_data)]

----------------------------------------------------------------------------
(* analyze_weekly_patterns. A record of daily_data is                        *)
(* [sensor_type, date, value]; the date is copied and never read.            *)

\* sensors[sensor]: the records of one sensor, in input order (lines 92-100)
RECURSIVE WeeklySensorData(_, _)
WeeklySensorData(daily_data, sensor) ==
    IF daily_data = <<>> THEN <<>>
    ELSE LET r    == Head(daily_data)
             rest == WeeklySensorData(Tail(daily_data), sensor)
         IN  IF r.sensor_type = sensor
             THEN <<[date |-> r.date, value |-> r.value]>> \o rest
             ELSE rest

\* round(((values[-1] - values[0]) / values[0]) * 100, 2), in hundredths
_calculate_change_percent(values) ==
    IF Len(values) < 2 \/ values[1] = 0 THEN 0
    ELSE RoundQuot(10000 * (values[Len(values)] - values[1]), values[1])

\* lines 120-126: the weekly statistics of one sensor; avg and change_percent
\* in hundredths
WeeklySensorAnalysis(data) ==
    LET values == NonNullValues(data)
    IN  [min            |-> Min(Range(values)),
         max            |-> Max(Range(values)),
         avg            |-> Round2(Sum(values), Len(values)),
         trend          |-> _calculate_trend(values),
         change_percent |-> _calculate_change_percent(values)]

\* _describe_weekly_trend: no record, or the one record; the description is
\* kept as the direction and abs(change) to one decimal, in tenths
_describe_weekly_trend(sensor, analysis) ==
    IF Abs(analysis.change_percent) < 500 THEN <<>>
    ELSE <<[sensor      |-> sensor,
            trend       |-> analysis.trend,
            description |-> <<IF analysis.change_percent > 0 THEN "increased" ELSE "decreased",
                              RoundDiv(Abs(analysis.change_percent), 10)>>]>>

\* PatternAnalyzer.analyze_weekly_patterns
analyze_weekly_patterns(daily_data) ==
    IF daily_data = <<>> THEN [success |-> FALSE, error |-> "No data available"]
    ELSE LET data(s)  == WeeklySensorData(daily_data, s)
             analysed == SelectSeq(SensorOrder(daily_data),
                                   LAMBDA s : ~SensorSkipped(data(s)))
         IN  [success  |-> TRUE,
              period   |-> "7d",
              sensors  |-> [s \in Range(analysed) |-> WeeklySensorAnalysis(data(s))],
              trends   |-> Concat([i \in 1..Len(analysed) |->
                               _describe_weekly_trend(analysed[i],
                                   WeeklySensorAnalysis(data(analysed[i])))]),
              patterns |-> <<>>]

----------------------------------------------------------------------------
(* ai_engine.py: the prompt of generate_daily_insight and                  *)
(* generate_weekly_insight.  The prompt is kept as its parts; a line of a  *)
(* part is the description of a finding, and the descriptions of           *)
(* anomalies and weekly trends spell out the sensor they are about.        *)

\* pattern_analysis.get(key, [])
Get(pattern_analysis, key) ==
    IF key \in DOMAIN pattern_analysis THEN pattern_analysis[key] ELSE <<>>

active_sensors == {"temperature", "humidity", "light", "soil_moisture"}

\* the sensors a finding's description is about
SensorsOf(finding) ==
    IF "sensor" \in DOMAIN finding THEN {finding.sensor} ELSE Range(finding.sensors)

\* p.get('description', ''), with the sensors the text is about
Line(finding) ==
    [about |-> SensorsOf(finding),
     description |-> IF "description" \in DOMAIN finding
                     THEN finding.description ELSE <<finding.type>>]

Lines(findings) == [i \in 1..Len(findings) |-> Line(findings[i])]

\* AIEngine._build_insight_prompt: only the statistics are restricted to the
\* active sensors
_build_insight_prompt(pattern_analysis, phase, insight_type) ==
    LET sensors == pattern_analysis.sensors
    IN  [period       |-> IF insight_type = "daily" THEN "24 hours" ELSE "7 days",
         phase        |-> phase,
         sensor_stats |-> [s \in DOMAIN sensors \cap active_sensors |-> sensors[s]],
         patterns     |-> Lines(Get(pattern_analysis, "patterns")),
         anomalies    |-> Lines(Get(pattern_analysis, "anomalies")),
         correlations |-> Lines(Get(pattern_analysis, "correlations")),
         trends       |-> Lines(Get(pattern_analysis, "trends"))]

\* PlantScheduler.generate_daily_insight and generate_weekly_insight up to the
\* call of OpenRouter: the prompt sent for a window, if one is sent
InsightPrompt(insight_type, window, phase) ==
    LET pattern_analysis == IF insight_type = "daily"
                            THEN analyze_daily_patterns(window)
                            ELSE analyze_weekly_patterns(window)
    IN  IF window = <<>> \/ ~pattern_analysis.success THEN None
        ELSE Some(_build_insight_prompt(pattern_analysis, phase, insight_type))

----------------------------------------------------------------------------
(* The calls of the pattern analyzer under test *)

SeqsUpTo(V, n) == UNION {[1..k -> V] : k \in 0..n}

\* the values of a series: negative, zero, and values 10% and 20% apart
TrendValues == {0 - 10, 0 - 5, 0, 10, 11, 12}

TrendArgs ==
    {[op |-> "_calculate_trend", values |-> vs] : vs \in SeqsUpTo(TrendValues, MaxTrendLen)}

\* get_hourly_stats: one table per sensor, each a run of hourly means in time
\* order; the hour of a record is the hour of its window
FirstHour == 10
HourlyTable(sensor, values) ==
    [i \in 1..Len(values) |->
        [sensor_type |-> sensor, hour |-> (FirstHour + i - 1) % 24, value |-> values[i]]]

TemperatureValues == {None, Some(0), Some(10), Some(12)}
HumidityValues == {None, Some(10), Some(12)}

\* the tables of a window, in either order
HourlyData(temperature, humidity, first) ==
    IF first = "temperature"
    THEN HourlyTable("temperature", temperature) \o HourlyTable("humidity", humidity)
    ELSE HourlyTable("humidity", humidity) \o HourlyTable("temperature", temperature)

\* humidity samples that fall from 90 to 40
FallingHumidity == {None, Some(40), Some(60), Some(90)}

\* soil moisture samples that decline by about 1 point per hour
SoilValues == {None, Some(8), Some(9), Some(10), Some(12)}

CallAnalyzeDaily ==
    /\ arg.op = "analyze_daily_patterns"
    /\ ~ret.done
    /\ ret' = [done |-> TRUE, result |-> analyze_daily_patterns(arg.hourly_data)]
    /\ UNCHANGED <<phase_file, writer, last_ok, call, arg, schedVars, liveVars>>

\* the values of a series: 0, a step of exactly 50% (10 to 15), steps beyond
\* 50%, and a value far from five equal ones
AnomalyValues == {0, 10, 15, 40}

CallDetectAnomaly ==
    /\ arg.op = "_detect_anomaly"
    /\ ~ret.done
    /\ ret' = [done |-> TRUE, result |-> _detect_anomaly(arg.sensor, arg.values)]
    /\ UNCHANGED <<phase_file, writer, last_ok, call, arg, schedVars, liveVars>>

\* a table of daily_data: one record per day
DailyTable(sensor, values) ==
    [i \in 1..Len(values) |-> [sensor_type |-> sensor, date |-> i, value |-> values[i]]]

\* daily light averages: changes of exactly 5% (20 to 21), of just under 5%
\* (1001 to 1051, 4.995%), of less, and a first value of 0
LightValues == {None, Some(0), Some(20), Some(21), Some(1001), Some(1051)}
WeeklyTemperatures == {<<>>, <<Some(20)>>, <<Some(25), Some(20)>>}

CallAnalyzeWeekly ==
    /\ arg.op = "analyze_weekly_patterns"
    /\ ~ret.done
    /\ ret' = [done |-> TRUE, result |-> analyze_weekly_patterns(arg.daily_data)]
    /\ UNCHANGED <<phase_file, writer, last_ok, call, arg, schedVars, liveVars>>

\* hourly pH means with a fall of more than a half, and daily TDS means that
\* rise by a quarter
PhValues == {Some(1), Some(6)}
TdsValues == {Some(400), Some(500)}

\* the window a scheduled insight is made of: the temperature table and the
\* table of an inactive sensor
InsightWindows(insight_type) ==
    IF insight_type = "daily"
    THEN {HourlyTable("temperature", <<Some(26), Some(27)>>) \o HourlyTable("ph", ph) :
             ph \in SeqsUpTo(PhValues, MaxSamples)}
    ELSE {DailyTable("temperature", <<Some(26), Some(27)>>) \o DailyTable("tds", tds) :
             tds \in SeqsUpTo(TdsValues, MaxSamples)}

CallInsight ==
    /\ arg.op = "generate_insight"
    /\ ~ret.done
    /\ ret' = [done |-> TRUE,
               prompt |-> InsightPrompt(arg.insight_type, arg.window, arg.phase)]
    /\ UNCHANGED <<phase_file, writer, last_ok, call, arg, schedVars, liveVars>>

CallCalculateTrend ==
    /\ arg.op = "_calculate_trend"
    /\ ~ret.done
    /\ ret' = [done |-> TRUE, trend |-> _calculate_trend(arg.values)]
    /\ UNCHANGED <<phase_file, writer, last_ok, call, arg, schedVars, liveVars>>

InitPattern ==
    /\ \/ arg \in TrendArgs
       \/ \E temperature \in SeqsUpTo(TemperatureValues, MaxSamples),
             humidity \in SeqsUpTo(HumidityValues, MaxSamples),
             first \in {"temperature", "humidity"} :
               arg = [op |-> "analyze_daily_patterns",
                      hourly_data |-> HourlyData(temperature, humidity, first)]
       \/ \E humidity \in SeqsUpTo(FallingHumidity, MaxSamples) :
               arg = [op |-> "analyze_daily_patterns",
                      hourly_data |-> HourlyData(<<>>, humidity, "humidity")]
       \/ \E soil_moisture \in SeqsUpTo(SoilValues, MaxSamples) :
               arg = [op |-> "analyze_daily_patterns",
                      hourly_data |-> HourlyTable("soil_moisture", soil_moisture)]
       \/ \E light \in SeqsUpTo(LightValues, MaxSamples),
             temperature \in WeeklyTemperatures :
               arg = [op |-> "analyze_weekly_patterns",
                      daily_data |-> DailyTable("temperature", temperature)
                                         \o DailyTable("light", light)]
       \/ \E values \in SeqsUpTo(AnomalyValues, MaxAnomalyLen) :
               arg = [op |-> "_detect_anomaly", sensor |-> "humidity", values |-> values]
       \/ \E insight_type \in {"daily", "weekly"} :
             \E window \in InsightWindows(insight_type) :
               arg = [op |-> "generate_insight", insight_type |-> insight_type,
                      window |-> window, phase |-> "vegetative"]
    /\ ret = NotCalled
    /\ phase_file = NoFile
    /\ writer = Idle
    /\ last_ok = ""
    /\ call = NoCall
    /\ SchedulerInit
    /\ LiveInit

NextPattern ==
    \/ CallCalculateTrend
    \/ CallAnalyzeDaily
    \/ CallDetectAnomaly
    \/ CallAnalyzeWeekly
    \/ CallInsight

SpecPattern == InitPattern /\ [][NextPattern]_vars

----------------------------------------------------------------------------
(* The pattern analyzer: C9 and C10 *)

DailyReturned == arg.op = "analyze_daily_patterns" /\ ret.done

\* the samples of one sensor in an input, and the input without them
SamplesOf(hourly_data, sensor) ==
    SelectSeq(hourly_data, LAMBDA r : r.sensor_type = sensor)
Without(hourly_data, sensor) ==
    SelectSeq(hourly_data, LAMBDA r : r.sensor_type # sensor)
FewOrNull(samples) ==
    Len(samples) < 2 \/ \A i \in 1..Len(samples) : samples[i].value = None

\* C9: analyze_daily_patterns answers an empty input with success = false; a
\* non-empty input with success = true, where a sensor with fewer than 2 samples
\* or only null values is left out of the sensors map, and the statistics of
\* every other sensor are those of the input without the left-out sensor's samples.
C9_SoftFailureAndIsolation ==
    DailyReturned =>
        LET input  == arg.hourly_data
            result == ret.result
        IN  /\ input = <<>> => result.success = FALSE
            /\ input # <<>> =>
                /\ result.success = TRUE
                /\ \A s \in {input[i].sensor_type : i \in 1..Len(input)} :
                       FewOrNull(SamplesOf(input, s)) =>
                           /\ s \notin DOMAIN result.sensors
                           /\ \A t \in DOMAIN result.sensors :
                                  /\ Without(input, s) # <<>>
                                  /\ t \in DOMAIN analyze_daily_patterns(Without(input, s)).sensors
                                  /\ analyze_daily_patterns(Without(input, s)).sensors[t]
                                        = result.sensors[t]

\* a window whose temperature is all null while humidity rises from 10 to 12
C9_Witness ==
    /\ DailyReturned
    /\ arg.hourly_data = HourlyTable("temperature", <<None, None>>)
                            \o HourlyTable("humidity", <<Some(10), Some(12)>>)
    /\ DOMAIN ret.result.sensors = {"humidity"}
    /\ ret.result.sensors["humidity"].trend = "increasing"
    /\ ret.result.sensors["humidity"].peak_hour = 11

TrendReturned == arg.op = "_calculate_trend" /\ ret.done

\* C10: for n >= 2 values _calculate_trend compares the mean of the first
\* floor(n/2) values with the mean of the rest and returns increasing only when
\* the second mean exceeds the first by more than 10% (of its size), decreasing
\* only when it is lower by more than 10%, stable otherwise; a first-half mean of
\* 0 or fewer than 2 values gives stable.
C10_TrendDirection ==
    TrendReturned =>
        LET n  == Len(arg.values)
            h  == n \div 2
            m  == n - h
            s1 == Sum(SubSeq(arg.values, 1, h))
            s2 == Sum(SubSeq(arg.values, h + 1, n))
            \* second mean - first mean > 10% of |first mean|, scaled by 10*h*m
            higher == 10 * (s2 * h - s1 * m) > Abs(s1) * m
            lower  == 10 * (s1 * m - s2 * h) > Abs(s1) * m
        IN  ret.trend = IF n < 2 \/ s1 = 0 THEN "stable"
                        ELSE IF higher THEN "increasing"
                        ELSE IF lower THEN "decreasing"
                        ELSE "stable"

\* the hour of the first sample of the sensor whose value is v
HourOfFirst(samples, v) ==
    samples[Min({i \in 1..Len(samples) : samples[i].value = Some(v)})].hour

\* the values of the non-null samples
ValuesOf(samples) ==
    {samples[i].value[1] : i \in {j \in 1..Len(samples) : samples[j].value # None}}

\* C11: for every sensor analysed by analyze_daily_patterns, peak_hour is the
\* hour of the first sample whose value is the maximum of the sensor's values and
\* low_hour the hour of the first sample whose value is their minimum, also when
\* the window holds the value 0, negative values or null samples.
C11_PeakAndLowHour ==
    (DailyReturned /\ arg.hourly_data # <<>>) =>
        \A s \in DOMAIN ret.result.sensors :
            LET samples == SamplesOf(arg.hourly_data, s)
            IN  /\ ret.result.sensors[s].peak_hour
                     = HourOfFirst(samples, Max(ValuesOf(samples)))
                /\ ret.result.sensors[s].low_hour
                     = HourOfFirst(samples, Min(ValuesOf(samples)))

AnomalyReturned == arg.op = "_detect_anomaly" /\ ret.done

\* C12: _detect_anomaly gives at most one anomaly: none for fewer than 3 values;
\* else an outlier naming the first value more than 2 sample standard deviations
\* from the sample mean; else a sudden_change naming the first adjacent pair
\* whose change exceeds 50% of a non-zero earlier value; else none.
C12_AnomalyOrder ==
    AnomalyReturned =>
        LET v == arg.values
            n == Len(v)
            \* (v[i] - mean)^2 > 4 * variance, times n^2 * (n - 1)
            far(i) == (n - 1) * (n * v[i] - Sum(v)) * (n * v[i] - Sum(v))
                          > 4 * n * (n * Sum([k \in 1..n |-> v[k] * v[k]]) - Sum(v) * Sum(v))
            \* |v[i+1] - v[i]| / |v[i]| > 1/2
            jump(i) == v[i] # 0 /\ 2 * Abs(v[i + 1] - v[i]) > Abs(v[i])
            first(P(_), m) == CHOOSE i \in 1..m : P(i) /\ \A j \in 1..(i - 1) : ~P(j)
            found == ret.result
        IN  /\ Len(found) <= 1
            /\ IF n < 3 THEN found = None
               ELSE IF \E i \in 1..n : far(i)
               THEN /\ found # None
                    /\ found[1].sensor = arg.sensor
                    /\ found[1].type = "outlier"
                    /\ found[1].description[2] = 10 * v[first(far, n)]
               ELSE IF \E i \in 1..(n - 1) : jump(i)
               THEN /\ found # None
                    /\ found[1].sensor = arg.sensor
                    /\ found[1].type = "sudden_change"
                    /\ LET i == first(jump, n - 1)
                       IN  found[1].description[2]
                               = RoundQuot(1000 * (v[i + 1] - v[i]), v[i])
               ELSE found = None

\* five values of 10 and then 40: 40 is an outlier and also a jump of 300%,
\* and the outlier is what is reported
C12_Witness ==
    /\ AnomalyReturned
    /\ arg.values = <<10, 10, 10, 10, 10, 40>>
    /\ ret.result # None
    /\ ret.result[1].type = "outlier"
    /\ ret.result[1].description[2] = 400

\* the non-null humidity values of the window, in input order
HumidityValuesOf(hourly_data) ==
    LET samples == SelectSeq(hourly_data,
                       LAMBDA r : r.sensor_type = "humidity" /\ r.value # None)
    IN  [i \in 1..Len(samples) |-> samples[i].value[1]]

HumidityAnomalies(result) ==
    SelectSeq(result.anomalies, LAMBDA a : a.sensor = "humidity")

\* C13 as stated: analyze_daily_patterns on a humidity window whose samples
\* are 90 followed by 40 reports a sudden_change anomaly for humidity.
C13_TwoSamples ==
    (DailyReturned /\ HumidityValuesOf(arg.hourly_data) = <<90, 40>>) =>
        \E i \in 1..Len(ret.result.anomalies) :
            /\ ret.result.anomalies[i].sensor = "humidity"
            /\ ret.result.anomalies[i].type = "sudden_change"

\* C13 as amended: on a humidity window of at least 3 non-null samples in
\* which 90 is directly followed by 40, analyze_daily_patterns reports exactly
\* one anomaly for humidity, a sudden_change unless a value lies more than 2
\* standard deviations from the mean; on the two samples 90, 40 alone it reports
\* no anomaly.
C13_ThreeSamples ==
    DailyReturned =>
        LET v == HumidityValuesOf(arg.hourly_data)
            n == Len(v)
            far(i) == (n - 1) * (n * v[i] - Sum(v)) * (n * v[i] - Sum(v))
                          > 4 * n * (n * Sum([k \in 1..n |-> v[k] * v[k]]) - Sum(v) * Sum(v))
        IN  /\ (n >= 3 /\ \E i \in 1..(n - 1) : v[i] = 90 /\ v[i + 1] = 40) =>
                /\ Len(HumidityAnomalies(ret.result)) = 1
                /\ HumidityAnomalies(ret.result)[1].type
                       = IF \E i \in 1..n : far(i) THEN "outlier" ELSE "sudden_change"
            /\ v = <<90, 40>> => HumidityAnomalies(ret.result) = <<>>

\* 90, 40, 40: the drop of 55.6% is reported
C13_Witness ==
    /\ DailyReturned
    /\ HumidityValuesOf(arg.hourly_data) = <<90, 40, 40>>
    /\ Len(ret.result.anomalies) = 1
    /\ ret.result.anomalies[1].type = "sudden_change"
    /\ ret.result.anomalies[1].description[2] = 0 - 556

\* the hours at which a sensor has a sample with a value, and the value there
HoursPresent(hourly_data, sensor) ==
    {r.hour : r \in {x \in Range(SamplesOf(hourly_data, sensor)) : x.value # None}}
ValueAt(hourly_data, sensor, h) ==
    (CHOOSE r \in Range(SamplesOf(hourly_data, sensor)) : r.hour = h /\ r.value # None).value[1]

\* C14: the inverse temperature-humidity finding is reported exactly when at
\* least 3 hours are present in both series, temperature rises on at least one
\* transition between consecutive common hours, and humidity falls on more than
\* 0.6 of the transitions on which temperature rises.
C14_InverseFinding ==
    (DailyReturned /\ arg.hourly_data # <<>>) =>
        LET d == arg.hourly_data
            common == Sorted(HoursPresent(d, "temperature") \cap HoursPresent(d, "humidity"))
            rises == {i \in 2..Len(common) :
                         ValueAt(d, "temperature", common[i]) > ValueAt(d, "temperature", common[i - 1])}
            falls == {i \in rises :
                         ValueAt(d, "humidity", common[i]) < ValueAt(d, "humidity", common[i - 1])}
            reported == \E i \in 1..Len(ret.result.correlations) :
                            ret.result.correlations[i].type = "inverse"
        IN  reported <=> /\ Len(common) >= 3
                         /\ rises # {}
                         /\ 10 * Cardinality(falls) > 6 * Cardinality(rises)

\* the non-null values of one sensor, in input order
NonNullOf(hourly_data, sensor) ==
    LET samples == SelectSeq(SamplesOf(hourly_data, sensor), LAMBDA r : r.value # None)
    IN  [i \in 1..Len(samples) |-> samples[i].value[1]]

\* C15: the soil-moisture finding ("may need watering") is reported whenever
\* the soil-moisture trend is decreasing and the mean decline per step between
\* consecutive samples, (first - last) / (number of steps), exceeds 1, and is
\* not reported otherwise.
C15_SoilWarning ==
    (DailyReturned /\ arg.hourly_data # <<>>) =>
        LET v == NonNullOf(arg.hourly_data, "soil_moisture")
            steps == Len(v) - 1
            reported == \E i \in 1..Len(ret.result.correlations) :
                            ret.result.correlations[i].type = "trend_warning"
        IN  reported <=> /\ steps >= 1
                         /\ _calculate_trend(v) = "decreasing"
                         /\ v[1] - v[Len(v)] > steps

WeeklyReturned == arg.op = "analyze_weekly_patterns" /\ ret.done

\* C16: in analyze_weekly_patterns each analysed sensor's change_percent is the
\* percent change from its first to its last sample (reported to 2 decimals),
\* 0 when there are fewer than 2 samples or the first value is 0, and a trend
\* record for the sensor is emitted if and only if that percent change is at
\* least 5 in absolute value.
C16_ChangePercent ==
    (WeeklyReturned /\ arg.daily_data # <<>>) =>
        \A s \in DOMAIN ret.result.sensors :
            LET v == NonNullOf(arg.daily_data, s)
                n == Len(v)
                zero == n < 2 \/ v[1] = 0
                cp == ret.result.sensors[s].change_percent
                emitted == \E i \in 1..Len(ret.result.trends) : ret.result.trends[i].sensor = s
            IN  /\ zero => cp = 0
                /\ ~zero => 2 * Abs(cp * v[1] - 10000 * (v[n] - v[1])) <= Abs(v[1])
                /\ emitted <=> (~zero /\ 100 * Abs(v[n] - v[1]) >= 5 * Abs(v[1]))

----------------------------------------------------------------------------
(* The inactive sensors: C22 *)

InsightReturned == arg.op = "generate_insight" /\ ret.done /\ ret.prompt # None

inactive_sensors == {"ph", "tds"}

\* the lines of a prompt that are about an inactive sensor
InactiveLines(prompt) ==
    {l \in Range(prompt.patterns) \cup Range(prompt.anomalies)
            \cup Range(prompt.correlations) \cup Range(prompt.trends) :
        l.about \cap inactive_sensors # {}}

\* C22 (phase classification): the analysis of a sensor reading served by the
\* dashboard or the AI engine has no entry for ph or tds, whatever the
\* readings hold.
C22_NoLiveEntry ==
    (response # <<>> /\ "analysis" \in DOMAIN response)
        => DOMAIN response.analysis.sensors \cap inactive_sensors = {}

\* C22: the insight prompt built from the pattern analysis of a window has no
\* statistic and no pattern, anomaly, correlation or trend line about ph or
\* tds.
C22_InactiveExcluded ==
    InsightReturned =>
        /\ DOMAIN ret.prompt[1].sensor_stats \cap inactive_sensors = {}
        /\ InactiveLines(ret.prompt[1]) = {}
----------------------------------------------------------------------------
(* Short series have no outlier: C30 *)

\* C30: for a series of 3, 4 or 5 values _detect_anomaly reports no outlier:
\* it returns nothing or a sudden_change.
C30_NoOutlierInShortSeries ==
    (AnomalyReturned /\ Len(arg.values) \in 3..5) =>
        (ret.result # None => ret.result[1].type = "sudden_change")

\* four values of 0 and one of 40: the last value is as far from the others as
\* a value of five can be, and nothing is reported
C30_Witness ==
    /\ AnomalyReturned
    /\ arg.values = <<0, 0, 0, 0, 40>>
    /\ ret.result = None
----------------------------------------------------------------------------
(* growth_comparator.py: the comparison with the benchmark.  An average of   *)
(* sensor_stats is in hundredths, as SensorAnalysis reports it; current_avg, *)
(* benchmark_optimal and every deviation_percent are in tenths.  A daily     *)
(* temperature is in hundredths of a degree; accumulated and expected degree *)
(* days are in tenths.                                                       *)

GDD_BASE_TEMP == 10

\* mutant: a day below the base temperature counts negative
calculate_gdd_signed(temp_avg) == temp_avg - 100 * GDD_BASE_TEMP

\* GrowthComparator.calculate_gdd; temperatures and degree days in hundredths
calculate_gdd(temp_avg) == Max({0, temp_avg - 100 * GDD_BASE_TEMP})

\* GrowthComparator.calculate_accumulated_gdd: round(total_gdd, 1), in tenths
calculate_accumulated_gdd(daily_temps) ==
    RoundDiv(Sum([i \in 1..Len(daily_temps) |-> calculate_gdd(daily_temps[i])]), 10)

\* GrowthComparator.get_expected_gdd_for_day
avg_daily_gdd == 17
get_expected_gdd_for_day(day, phase) == day * avg_daily_gdd

\* mutant: the deviation is taken from optimal_min
_calculate_deviation_from_min(value, optimal_min, optimal_max) ==
    LET c == 2 * optimal_min
    IN  IF c = 0 THEN 0 ELSE RoundQuot(10 * (2 * value - 100 * c), c)

\* GrowthComparator._calculate_deviation with optimal_center = (min + max) / 2:
\* ((value/100 - c/2) / (c/2)) * 100 = (2 * value - 100 * c) / c, c = min + max
_calculate_deviation(value, optimal_min, optimal_max) ==
    LET c == optimal_min + optimal_max
    IN  IF c = 0 THEN 0 ELSE RoundQuot(10 * (2 * value - 100 * c), c)

\* the thresholds in the unit of an average
Hundredths(thresholds) == [k \in DOMAIN thresholds |-> 100 * thresholds[k]]

\* _get_temp_detail, _get_humidity_detail, _get_soil_detail, _get_light_detail:
\* the sentence chosen, and the numbers printed in it
SensorDetail(sensor, value, optimal_min, optimal_max, status, phase_name) ==
    IF sensor = "light" /\ phase_name = "germination"
    THEN <<sensor, "normal for germination", value>>
    ELSE IF status = "optimal"
    THEN <<sensor, "within optimal range", value, optimal_min, optimal_max>>
    ELSE IF status \in {"slightly_low", "low", "critical_low"}
    THEN <<sensor, "below optimal range", value, optimal_min, optimal_max>>
    ELSE <<sensor, "above optimal range", value, optimal_min, optimal_max>>

\* lines 81-163: the comparison of one sensor
SensorComparison(sensor, sensor_stats, phase_data) ==
    LET avg         == sensor_stats[sensor].avg
        thresholds  == phase_data[sensor]
        optimal_min == thresholds.optimal_min
        optimal_max == thresholds.optimal_max
        status      == _get_status(avg, Hundredths(thresholds), sensor, phase_data.name)
    IN  [current_avg       |-> RoundDiv(avg, 10),
         benchmark_min     |-> optimal_min,
         benchmark_max     |-> optimal_max,
         benchmark_optimal |-> 5 * (optimal_min + optimal_max),
         deviation_percent |-> _calculate_deviation(avg, optimal_min, optimal_max),
         status            |-> status,
         detail            |-> SensorDetail(sensor, avg, optimal_min, optimal_max,
                                            status, phase_data.name)]

\* lines 58-79
Timeline(phase_data, experiment_day) ==
    LET min_days == phase_data.duration_days.min
        max_days == phase_data.duration_days.max
    IN  [current_day  |-> experiment_day,
         expected_min |-> min_days,
         expected_max |-> max_days,
         status       |-> IF experiment_day <= min_days THEN "on_track"
                          ELSE IF experiment_day <= max_days THEN "mid_phase"
                          ELSE "extended",
         detail       |-> IF experiment_day <= max_days
                          THEN <<"Day of expected days", experiment_day, min_days, max_days>>
                          ELSE <<"Day exceeds typical days", experiment_day, max_days>>]

\* lines 165-182
GddProgress(phase_data, experiment_day, accumulated_gdd) ==
    LET expected_gdd  == get_expected_gdd_for_day(experiment_day, phase_data.name)
        gdd_deviation == IF expected_gdd > 0
                         THEN RoundQuot(100 * (accumulated_gdd - 10 * expected_gdd), expected_gdd)
                         ELSE 0
    IN  [accumulated       |-> accumulated_gdd,
         expected          |-> 10 * expected_gdd,
         deviation_percent |-> gdd_deviation,
         status            |-> IF gdd_deviation >= 0 - 100 THEN "on_track"
                               ELSE IF gdd_deviation >= 0 - 250 THEN "slightly_behind"
                               ELSE "behind",
         detail            |-> <<"GDD accumulated vs expected", accumulated_gdd,
                                 10 * expected_gdd, gdd_deviation>>]

\* the sensors looked up in sensor_stats (lines 82, 103, 124, 145)
ComparedSensors == {"temperature", "humidity", "soil_moisture", "light"}

\* GrowthComparator.compare_with_benchmark
compare_with_benchmark(sensor_stats, phase_data, experiment_day, accumulated_gdd) ==
    [key \in {"timeline", "gdd_progress"} \cup (ComparedSensors \cap DOMAIN sensor_stats) |->
        IF key = "timeline" THEN Timeline(phase_data, experiment_day)
        ELSE IF key = "gdd_progress"
             THEN GddProgress(phase_data, experiment_day, accumulated_gdd)
        ELSE SensorComparison(key, sensor_stats, phase_data)]

\* mutant: the timeline has a weight as well
weights_with_timeline ==
    <<[key |-> "temperature", weight |-> 25], [key |-> "humidity", weight |-> 20],
      [key |-> "soil_moisture", weight |-> 25], [key |-> "light", weight |-> 15],
      [key |-> "gdd_progress", weight |-> 15], [key |-> "timeline", weight |-> 10]>>

\* calculate_overall_score: the weights in the order of the dict (lines 190-196)
weights ==
    <<[key |-> "temperature", weight |-> 25], [key |-> "humidity", weight |-> 20],
      [key |-> "soil_moisture", weight |-> 25], [key |-> "light", weight |-> 15],
      [key |-> "gdd_progress", weight |-> 15]>>

\* status_scores.get(status, 70) (lines 198-211, 219)
status_scores(status) ==
    CASE status \in {"optimal", "on_track"} -> 100
      [] status \in {"slightly_low", "slightly_high", "slightly_behind"} -> 75
      [] status = "mid_phase" -> 90
      [] status \in {"low", "high", "behind"} -> 50
      [] status = "extended" -> 60
      [] status \in {"critical_low", "critical_high"} -> 20
      [] OTHER -> 70

\* mutant: the weights of absent dimensions count in the divisor
calculate_overall_score_all_weights(comparisons) ==
    LET present == SelectSeq(weights, LAMBDA w : w.key \in DOMAIN comparisons)
        total_weight   == Sum([i \in 1..Len(weights) |-> weights[i].weight])
        weighted_score == Sum([i \in 1..Len(present) |->
                                  status_scores(comparisons[present[i].key].status)
                                      * present[i].weight])
        overall_score  == IF total_weight > 0
                          THEN RoundDiv(weighted_score, total_weight) ELSE 0
    IN  [score  |-> overall_score,
         status |-> IF overall_score >= 85 THEN "excellent"
                    ELSE IF overall_score >= 70 THEN "good"
                    ELSE IF overall_score >= 50 THEN "fair"
                    ELSE "poor"]

\* GrowthComparator.calculate_overall_score
calculate_overall_score(comparisons) ==
    LET present == SelectSeq(weights, LAMBDA w : w.key \in DOMAIN comparisons)
        total_weight   == Sum([i \in 1..Len(present) |-> present[i].weight])
        weighted_score == Sum([i \in 1..Len(present) |->
                                  status_scores(comparisons[present[i].key].status)
                                      * present[i].weight])
        overall_score  == IF total_weight > 0
                          THEN RoundDiv(weighted_score, total_weight) ELSE 0
    IN  [score  |-> overall_score,
         status |-> IF overall_score >= 85 THEN "excellent"
                    ELSE IF overall_score >= 70 THEN "good"
                    ELSE IF overall_score >= 50 THEN "fair"
                    ELSE "poor"]

\* mutant: a status above the optimal band is no issue
SensorIssue_below_only(comparisons, sensor) ==
    IF sensor \notin DOMAIN comparisons THEN <<>>
    ELSE IF comparisons[sensor].status \in {"low", "slightly_low", "critical_low"}
    THEN <<<<sensor, "below optimal">>>>
    ELSE <<>>

\* lines 245-264: the issue, if any, of one sensor
SensorIssue(comparisons, sensor) ==
    IF sensor \notin DOMAIN comparisons THEN <<>>
    ELSE IF comparisons[sensor].status \in {"low", "slightly_low", "critical_low"}
    THEN <<<<sensor, "below optimal">>>>
    ELSE IF comparisons[sensor].status \in {"high", "slightly_high", "critical_high"}
    THEN <<<<sensor, "too high">>>>
    ELSE <<>>

\* mutant: temperature is checked before humidity
generate_recommendation_temperature_first(comparisons, phase_data) ==
    LET issues == SensorIssue(comparisons, "temperature")
                    \o SensorIssue(comparisons, "humidity")
                    \o SensorIssue(comparisons, "soil_moisture")
                    \o (IF "gdd_progress" \in DOMAIN comparisons
                           /\ comparisons["gdd_progress"].status = "behind"
                        THEN <<<<"growth", "slower than expected">>>> ELSE <<>>)
    IN  IF issues = <<>>
        THEN <<<<"All conditions are within optimal range", phase_data.name>>>>
        ELSE issues

\* GrowthComparator.generate_recommendation: the sentences joined, in order
generate_recommendation(comparisons, phase_data) ==
    LET issues == SensorIssue(comparisons, "humidity")
                    \o SensorIssue(comparisons, "temperature")
                    \o SensorIssue(comparisons, "soil_moisture")
                    \o (IF "gdd_progress" \in DOMAIN comparisons
                           /\ comparisons["gdd_progress"].status = "behind"
                        THEN <<<<"growth", "slower than expected">>>> ELSE <<>>)
    IN  IF issues = <<>>
        THEN <<<<"All conditions are within optimal range", phase_data.name>>>>
        ELSE issues

----------------------------------------------------------------------------
(* The calls of the growth comparator under test *)

MaxDays == 3

\* daily average temperatures in hundredths: below, at and just above the base
\* temperature, and whole degrees above it
GddTemps == {800, 1000, 1004, 1200, 1500}

CallAccumulatedGdd ==
    /\ arg.op = "calculate_accumulated_gdd"
    /\ ~ret.done
    /\ ret' = [done |-> TRUE, result |-> calculate_accumulated_gdd(arg.daily_temps)]
    /\ UNCHANGED <<phase_file, writer, last_ok, call, arg, schedVars, liveVars>>

\* the statuses that compare_with_benchmark gives a dimension
SensorStatuses ==
    {"optimal", "slightly_low", "slightly_high", "low", "high",
     "critical_low", "critical_high"}
GddStatuses == {"on_track", "slightly_behind", "behind"}
StatusesOf(key) == IF key = "gdd_progress" THEN GddStatuses ELSE SensorStatuses

\* comparisons with any of the dimensions in keys, each with any of its statuses
Comparisons(keys) ==
    {c \in [keys -> [status : SensorStatuses \cup GddStatuses]] :
        \A k \in keys : c[k].status \in StatusesOf(k)}

\* the statuses of the timeline dimension (lines 58-79)
TimelineStatuses == {"on_track", "mid_phase", "extended"}

\* comparisons as compare_with_benchmark returns them, with a timeline; the
\* sensors take one status of each score (100, 75, 50, 20)
TimelineComparisons(keys) ==
    {c \in [keys \cup {"timeline"} ->
                [status : {"optimal", "slightly_low", "low", "critical_low"}
                            \cup GddStatuses \cup TimelineStatuses]] :
        /\ c["timeline"].status \in TimelineStatuses
        /\ \A k \in keys \cap ComparedSensors :
               c[k].status \in {"optimal", "slightly_low", "low", "critical_low"}
        /\ "gdd_progress" \in keys => c["gdd_progress"].status \in GddStatuses}

CallOverallScore ==
    /\ arg.op = "calculate_overall_score"
    /\ ~ret.done
    /\ ret' = [done |-> TRUE, result |-> calculate_overall_score(arg.comparisons)]
    /\ UNCHANGED <<phase_file, writer, last_ok, call, arg, schedVars, liveVars>>

\* the phases a recommendation is asked for
RecommendationPhases == {"germination", "flowering"}

CallRecommendation ==
    /\ arg.op = "generate_recommendation"
    /\ ~ret.done
    /\ ret' = [done |-> TRUE,
               result |-> generate_recommendation(arg.comparisons, arg.phase_data)]
    /\ UNCHANGED <<phase_file, writer, last_ok, call, arg, schedVars, liveVars>>

\* the statistics of no sensor, and of a temperature of 27.3 degrees
CompareStats == {<<>>, [temperature |-> [avg |-> 2730]]}

\* experiment days: the day before the start, and days of 17, 34 and 221
\* expected degree days
CompareDays == {0, 1, 2, 13}

\* accumulated degree days in tenths: none, and values at and next to 90% and
\* 75% of the expected ones
CompareGdds == {0, 127, 128, 152, 153, 255, 1988, 1989, 2300}

ComparePhases == {"vegetative"}

\* the sensors of the statistics, and the averages of each in hundredths
StatSensors == {"temperature", "humidity", "soil_moisture", "light", "ph"}
AveragesOf(sensor) ==
    CASE sensor = "temperature" -> {1400, 2600, 2730}
      [] sensor = "humidity" -> {6500, 8512}
      [] sensor = "soil_moisture" -> {4000}
      [] sensor = "light" -> {0, 3000000}
      [] sensor = "ph" -> {650}
SensorStats(keys) ==
    {stats \in [keys -> [avg : UNION {AveragesOf(k) : k \in StatSensors}]] :
        \A k \in keys : stats[k].avg \in AveragesOf(k)}

\* the phases of the table, and a phase_data whose light band is 0 to 0
DarkPhase ==
    [PhaseDict("germination") EXCEPT
        !.name = "dark",
        !.light = [critical_low |-> 0, low |-> 0, optimal_min |-> 0,
                   optimal_max |-> 0, high |-> 0, critical_high |-> 0]]
BenchmarkPhases == {PhaseDict(n) : n \in Range(get_all_phases)} \cup {DarkPhase}

CallCompare ==
    /\ arg.op = "compare_with_benchmark"
    /\ ~ret.done
    /\ ret' = [done |-> TRUE,
               result |-> compare_with_benchmark(arg.sensor_stats, arg.phase_data,
                                                 arg.experiment_day, arg.accumulated_gdd)]
    /\ UNCHANGED <<phase_file, writer, last_ok, call, arg, schedVars, liveVars>>

InitComparator ==
    /\ \/ \E temps \in SeqsUpTo(GddTemps, MaxDays) :
               arg = [op |-> "calculate_accumulated_gdd", daily_temps |-> temps]
       \/ \E stats \in CompareStats, phase \in ComparePhases,
             day \in CompareDays, gdd \in CompareGdds :
               arg = [op |-> "compare_with_benchmark", sensor_stats |-> stats,
                      phase_data |-> PhaseDict(phase), experiment_day |-> day,
                      accumulated_gdd |-> gdd]
       \/ \E keys \in SUBSET StatSensors, phase_data \in BenchmarkPhases :
             \E stats \in SensorStats(keys) :
               arg = [op |-> "compare_with_benchmark", sensor_stats |-> stats,
                      phase_data |-> phase_data, experiment_day |-> 13,
                      accumulated_gdd |-> 2300]
       \/ \E keys \in SUBSET (ComparedSensors \cup {"gdd_progress"}) :
             \E comparisons \in Comparisons(keys) :
               \/ arg = [op |-> "calculate_overall_score", comparisons |-> comparisons]
               \/ \E phase \in RecommendationPhases :
                      arg = [op |-> "generate_recommendation", comparisons |-> comparisons,
                             phase_data |-> PhaseDict(phase)]
       \/ \E keys \in SUBSET (ComparedSensors \cup {"gdd_progress"}) :
             \E comparisons \in TimelineComparisons(keys) :
               arg = [op |-> "calculate_overall_score", comparisons |-> comparisons]
    /\ ret = NotCalled
    /\ phase_file = NoFile
    /\ writer = Idle
    /\ last_ok = ""
    /\ call = NoCall
    /\ SchedulerInit
    /\ LiveInit

NextComparator ==
    \/ CallAccumulatedGdd
    \/ CallOverallScore
    \/ CallRecommendation
    \/ CallCompare

SpecComparator == InitComparator /\ [][NextComparator]_vars

GddReturned == arg.op = "calculate_accumulated_gdd" /\ ret.done

\* the sum of max(0, t - 10) over the list, in hundredths
DegreeDaySum(daily_temps) ==
    Sum([i \in 1..Len(daily_temps) |->
            IF daily_temps[i] > 1000 THEN daily_temps[i] - 1000 ELSE 0])

\* C17 as stated: calculate_accumulated_gdd of any list of daily average
\* temperatures equals the sum of max(0, t - 10) over the list.
C17_EqualsSum ==
    GddReturned => 10 * ret.result = DegreeDaySum(arg.daily_temps)

\* C17 as amended: calculate_accumulated_gdd equals the sum of max(0, t - 10)
\* over the list rounded to 1 decimal: a day at or below 10 degrees contributes
\* 0, the total is never negative, appending a day never decreases the total,
\* and [8, 12, 15] gives 7.0.
C17_RoundedSum ==
    GddReturned =>
        LET temps == arg.daily_temps
            warm  == SelectSeq(temps, LAMBDA t : t > 1000)
        IN  /\ 2 * Abs(10 * ret.result - DegreeDaySum(temps)) <= 10
            /\ DegreeDaySum(temps) = DegreeDaySum(warm)
            /\ ret.result = calculate_accumulated_gdd(warm)
            /\ ret.result >= 0
            /\ \A t \in GddTemps : calculate_accumulated_gdd(Append(temps, t)) >= ret.result
            /\ temps = <<800, 1200, 1500>> => ret.result = 70

\* [8, 12, 15] gives 7.0
C17_Witness ==
    GddReturned /\ arg.daily_temps = <<800, 1200, 1500>> /\ ret.result = 70

ScoreReturned == arg.op = "calculate_overall_score" /\ ret.done

\* the weights and the points of the composite score
ScoreWeight(key) ==
    CASE key = "temperature" -> 25
      [] key = "humidity" -> 20
      [] key = "soil_moisture" -> 25
      [] key = "light" -> 15
      [] key = "gdd_progress" -> 15
ScorePoints(status) ==
    CASE status \in {"optimal", "on_track"} -> 100
      [] status \in {"slightly_low", "slightly_high", "slightly_behind"} -> 75
      [] status \in {"low", "high", "behind"} -> 50
      [] status \in {"critical_low", "critical_high"} -> 20
ScoreDimensions == <<"temperature", "humidity", "soil_moisture", "light", "gdd_progress">>

\* C18: for every subset of the five dimensions present and every status of
\* each, calculate_overall_score returns the average of the mapped points
\* weighted 25/20/25/15/15 over the present dimensions only, rounded to the
\* nearest integer; the score is within [0, 100], and with exactly one
\* dimension present it is that dimension's mapped point value.
C18_OverallScore ==
    ScoreReturned =>
        LET c == arg.comparisons
            over(f(_)) == Sum([i \in 1..Len(ScoreDimensions) |->
                              IF ScoreDimensions[i] \in DOMAIN c
                              THEN f(ScoreDimensions[i]) ELSE 0])
            points(k) == ScorePoints(c[k].status) * ScoreWeight(k)
            total     == over(ScoreWeight)
            weighted  == over(points)
            score     == ret.result.score
        IN  /\ DOMAIN c # {} => 2 * Abs(score * total - weighted) <= total
            /\ score >= 0 /\ score <= 100
            /\ \A k \in Range(ScoreDimensions) :
                   DOMAIN c \cap Range(ScoreDimensions) = {k}
                       => score = ScorePoints(c[k].status)

\* temperature optimal and GDD slightly behind: (100 * 25 + 75 * 15) / 40 =
\* 90.625 gives 91
C18_Witness ==
    /\ ScoreReturned
    /\ DOMAIN arg.comparisons = {"temperature", "gdd_progress"}
    /\ arg.comparisons["temperature"].status = "optimal"
    /\ arg.comparisons["gdd_progress"].status = "slightly_behind"
    /\ ret.result.score = 91

RecommendationReturned == arg.op = "generate_recommendation" /\ ret.done

\* the place of a sentence's subject in the fixed order
AdvisoryRank(subject) ==
    CASE subject = "humidity" -> 1
      [] subject = "temperature" -> 2
      [] subject = "soil_moisture" -> 3
      [] subject = "growth" -> 4
      [] OTHER -> 0

\* the advisory sentences that apply to a comparison
AdvisoriesOf(c) ==
    {<<k, "below optimal">> : k \in {k \in {"humidity", "temperature", "soil_moisture"} \cap DOMAIN c :
                                  c[k].status \in {"low", "slightly_low", "critical_low"}}}
    \cup {<<k, "too high">> : k \in {k \in {"humidity", "temperature", "soil_moisture"} \cap DOMAIN c :
                                  c[k].status \in {"high", "slightly_high", "critical_high"}}}
    \cup (IF "gdd_progress" \in DOMAIN c /\ c["gdd_progress"].status = "behind"
          THEN {<<"growth", "slower than expected">>} ELSE {})

\* C19: generate_recommendation returns the advisory sentences of the
\* out-of-optimal dimensions in the fixed order humidity, temperature,
\* soil_moisture, GDD-behind, at most one per dimension, and returns the single
\* positive-affirmation sentence naming the phase if and only if no advisory
\* sentence applies.
C19_Recommendation ==
    RecommendationReturned =>
        LET r == ret.result
            affirmation == <<"All conditions are within optimal range", arg.phase_data.name>>
            applying == AdvisoriesOf(arg.comparisons)
        IN  /\ applying # {} =>
                /\ Range(r) = applying
                /\ \A i, j \in 1..Len(r) : i < j => AdvisoryRank(r[i][1]) < AdvisoryRank(r[j][1])
            /\ (affirmation \in Range(r)) <=> applying = {}
            /\ applying = {} => r = <<affirmation>>

\* humidity too high, temperature and soil moisture low, growth behind: four
\* sentences in the fixed order
C19_Witness ==
    /\ RecommendationReturned
    /\ ret.result = << <<"humidity", "too high">>, <<"temperature", "below optimal">>,
                       <<"soil_moisture", "below optimal">>,
                       <<"growth", "slower than expected">> >>

CompareReturned == arg.op = "compare_with_benchmark" /\ ret.done

\* C20: in compare_with_benchmark the gdd_progress dimension is always present;
\* its deviation is (accumulated - expected) / expected * 100 (reported to 1
\* decimal) with expected = experiment_day * 17, and is 0 with status on_track
\* when expected is 0; the status is on_track when the deviation is at least
\* -10, slightly_behind when it is at least -25 and below -10, and behind when
\* it is below -25.
C20_GddProgress ==
    CompareReturned =>
        /\ "gdd_progress" \in DOMAIN ret.result
        /\ LET g        == ret.result["gdd_progress"]
               expected == arg.experiment_day * 17
               \* accumulated - expected, in tenths
               ahead    == arg.accumulated_gdd - 10 * expected
           IN  /\ g.expected = 10 * expected
               /\ expected = 0 => g.deviation_percent = 0 /\ g.status = "on_track"
               /\ expected > 0 =>
                    \* deviation_percent is in tenths
                    /\ 2 * Abs(g.deviation_percent * expected - 100 * ahead) <= expected
                    \* ahead / (10 * expected) * 100 >= -10, and >= -25
                    /\ g.status = IF 10 * ahead >= (0 - 10) * expected THEN "on_track"
                                  ELSE IF 10 * ahead >= (0 - 25) * expected THEN "slightly_behind"
                                  ELSE "behind"

----------------------------------------------------------------------------
(* The affirmation: C26 *)

AffirmationReturned ==
    /\ RecommendationReturned
    /\ ret.result = <<<<"All conditions are within optimal range", arg.phase_data.name>>>>

\* every dimension of S that the comparison has is optimal
AllOptimal(S) ==
    \A k \in S \cap DOMAIN arg.comparisons : arg.comparisons[k].status = "optimal"

GddStatusIn(S) ==
    "gdd_progress" \in DOMAIN arg.comparisons
        => arg.comparisons["gdd_progress"].status \in S

----------------------------------------------------------------------------
(* The timeline and the score: C29 *)

\* the comparison with the timeline's status replaced by t
WithTimeline(comparisons, t) ==
    [k \in DOMAIN comparisons |->
        IF k = "timeline" THEN [status |-> t] ELSE comparisons[k]]

\* the comparison without its timeline dimension
WithoutTimeline(comparisons) ==
    [k \in DOMAIN comparisons \ {"timeline"} |-> comparisons[k]]

\* C29: the score and the band of a comparison are those of every comparison
\* that differs from it only in the timeline dimension (on_track, mid_phase,
\* extended, or no timeline at all): they depend on the statuses of
\* temperature, humidity, soil_moisture, light and gdd_progress only.
C29_TimelineIgnored ==
    (ScoreReturned /\ "timeline" \in DOMAIN arg.comparisons) =>
        /\ \A t \in TimelineStatuses :
               calculate_overall_score(WithTimeline(arg.comparisons, t)) = ret.result
        /\ calculate_overall_score(WithoutTimeline(arg.comparisons)) = ret.result

C29_Witness ==
    /\ ScoreReturned
    /\ DOMAIN arg.comparisons = ComparedSensors \cup {"gdd_progress", "timeline"}
    /\ arg.comparisons["timeline"].status = "extended"
    /\ \A k \in ComparedSensors : arg.comparisons[k].status = "optimal"
    /\ arg.comparisons["gdd_progress"].status = "on_track"
    /\ ret.result = [score |-> 100, status |-> "excellent"]
----------------------------------------------------------------------------
(* scheduler.py: generate_growth_comparison.  A run is taken in two steps,   *)
(* the computation of its locals (lines 173-212) and the assignment and save *)
(* of the snapshot (lines 215-227), and the steps of different runs and of   *)
(* update_phase may come in any order; the event loop, which runs one job to *)
(* its end before the next, gives the orders in which the two steps of a run *)
(* are adjacent.  A record of daily_data is [sensor_type, value]; the        *)
(* timestamp of a snapshot is left out.                                      *)

\* what get_hourly_stats can return: nothing (also after a failed query), a
\* window with temperature and humidity, a window where humidity has one sample
HourlyWindows ==
    {<<>>,
     HourlyData(<<Some(26), Some(28)>>, <<Some(80), None>>, "temperature"),
     HourlyData(<<Some(31), Some(36), Some(35)>>, <<Some(60)>>, "humidity")}

\* what get_daily_stats can return: daily means in hundredths, or a
\* temperature mean of None
DailyWindows ==
    {<<[sensor_type |-> "temperature", value |-> Some(2700)],
       [sensor_type |-> "temperature", value |-> Some(3000)],
       [sensor_type |-> "humidity", value |-> Some(8000)]>>,
     <<[sensor_type |-> "temperature", value |-> Some(2700)],
       [sensor_type |-> "temperature", value |-> None]>>}

\* what get_experiment_day can return
ExperimentDays == {2, 40}

\* line 175: if not hourly_data
no_hourly_data(hourly_data) == hourly_data = <<>>

\* lines 193-196: [record.get("value", 0) for the temperature records]
daily_temps(daily_data) ==
    LET temperature == SelectSeq(daily_data, LAMBDA r : r.sensor_type = "temperature")
    IN  [i \in 1..Len(temperature) |-> temperature[i].value]

\* calculate_gdd raises TypeError on a temperature of None
raises(daily_data) ==
    \E i \in 1..Len(daily_temps(daily_data)) : daily_temps(daily_data)[i] = None

\* lines 183-184: pattern_analysis.get("sensors", {})
sensor_stats(hourly_data) ==
    LET pattern_analysis == analyze_daily_patterns(hourly_data)
    IN  IF "sensors" \in DOMAIN pattern_analysis THEN pattern_analysis.sensors ELSE <<>>

\* lines 183-212: the locals of a run that read file in current_phase.json
Locals(hourly_data, daily_data, experiment_day, file) ==
    LET phase == get_current_phase(file)
        temps == daily_temps(daily_data)
        accumulated_gdd == calculate_accumulated_gdd([i \in 1..Len(temps) |-> temps[i][1]])
        comparisons == compare_with_benchmark(sensor_stats(hourly_data), phase,
                                              experiment_day, accumulated_gdd)
    IN  [experiment_day  |-> experiment_day,
         phase           |-> phase,
         comparisons     |-> comparisons,
         overall         |-> calculate_overall_score(comparisons),
         recommendation  |-> generate_recommendation(comparisons, phase),
         accumulated_gdd |-> accumulated_gdd]

\* mutant: the phase of the snapshot is read again when the snapshot is built
SnapshotPhase_read_again(locals, file) == get_current_phase(file).name

\* line 219: phase["name"]
SnapshotPhase(locals, file) == locals.phase.name

\* lines 215-225: the snapshot; id stands for the fresh uuid
Snapshot(id, locals, file) ==
    [id              |-> id,
     experiment_day  |-> locals.experiment_day,
     phase           |-> SnapshotPhase(locals, file),
     comparisons     |-> locals.comparisons,
     overall_score   |-> locals.overall.score,
     overall_status  |-> locals.overall.status,
     recommendation  |-> locals.recommendation,
     accumulated_gdd |-> locals.accumulated_gdd]

regVars == <<phase_file, writer, last_ok, call, arg, ret, liveVars>>

\* the runs that have computed their locals and not yet assigned
InProgress == {p \in Procs : run[p].pc = "assign"}

\* a run that gets no hourly data returns at line 177
RunNoData(p, hourly_data) ==
    /\ run[p].pc = "idle"
    /\ no_hourly_data(hourly_data)
    /\ UNCHANGED <<latest_comparison, comparison_file, run, last_completed>>
    /\ last_ended' = [outcome |-> "no_data",
                      changed |-> latest_comparison' # latest_comparison]
    /\ UNCHANGED regVars

\* a run whose daily data makes calculate_accumulated_gdd raise ends in the
\* handler of line 230
RunRaises(p, hourly_data, daily_data) ==
    /\ run[p].pc = "idle"
    /\ ~no_hourly_data(hourly_data)
    /\ raises(daily_data)
    /\ UNCHANGED <<latest_comparison, comparison_file, run, last_completed>>
    /\ last_ended' = [outcome |-> "error",
                      changed |-> latest_comparison' # latest_comparison]
    /\ UNCHANGED regVars

\* lines 173-212: the run fetches its data, reads the phase and computes
RunCompute(p, hourly_data, daily_data, experiment_day) ==
    /\ run[p].pc = "idle"
    /\ last_completed.id + Cardinality(InProgress) < MaxRuns
    /\ ~no_hourly_data(hourly_data)
    /\ ~raises(daily_data)
    /\ run' = [run EXCEPT ![p] =
                  [pc             |-> "assign",
                   hourly_data    |-> hourly_data,
                   daily_data     |-> daily_data,
                   experiment_day |-> experiment_day,
                   file           |-> phase_file,
                   locals         |-> Locals(hourly_data, daily_data,
                                             experiment_day, phase_file)]]
    /\ UNCHANGED <<latest_comparison, comparison_file, last_completed, last_ended>>
    /\ UNCHANGED regVars

\* what _save_latest_comparison can leave in comparison.json
Torn == [torn |-> TRUE]

\* lines 215-227: the snapshot is assigned and saved; a failure of the save is
\* logged and leaves the file as it was, or cut short
RunAssign(p) ==
    /\ run[p].pc = "assign"
    /\ LET snapshot == Snapshot(last_completed.id + 1, run[p].locals, phase_file)
       IN  /\ latest_comparison' = Some(snapshot)
           /\ comparison_file' \in {Some(snapshot), Some(Torn), comparison_file}
           /\ last_completed' = [id             |-> snapshot.id,
                                 hourly_data    |-> run[p].hourly_data,
                                 daily_data     |-> run[p].daily_data,
                                 experiment_day |-> run[p].experiment_day,
                                 file           |-> run[p].file]
    /\ run' = [run EXCEPT ![p] = [pc |-> "idle"]]
    /\ last_ended' = [outcome |-> "ok",
                      changed |-> latest_comparison' # latest_comparison]
    /\ UNCHANGED regVars

\* the phases set while comparisons run
SchedulerPhases == {"flowering"}

InitScheduler ==
    /\ phase_file = NoFile
    /\ writer = Idle
    /\ last_ok = ""
    /\ call = NoCall
    /\ arg = NoArg
    /\ ret = NotCalled
    /\ SchedulerInit
    /\ LiveInit

NextScheduler ==
    \/ \E p \in Procs, hourly_data \in HourlyWindows : RunNoData(p, hourly_data)
    \/ \E p \in Procs, hourly_data \in HourlyWindows, daily_data \in DailyWindows :
           RunRaises(p, hourly_data, daily_data)
    \/ \E p \in Procs, hourly_data \in HourlyWindows, daily_data \in DailyWindows,
          experiment_day \in ExperimentDays :
           RunCompute(p, hourly_data, daily_data, experiment_day)
    \/ \E p \in Procs : RunAssign(p)
    \/ \E name \in SchedulerPhases : UpdatePhaseOpen("service", name)
    \/ UpdatePhaseDump

SpecScheduler == InitScheduler /\ [][NextScheduler]_vars

----------------------------------------------------------------------------
(* The comparison snapshot: C8 *)

\* C8: the latest comparison snapshot is the result of the run that assigned
\* last: its id, phase, comparisons, overall score and status, recommendation
\* and accumulated GDD are those computed from that run's data and from the
\* phase that run read; a run that got no hourly data or raised an exception
\* left the snapshot as it was.
C8_LastCompletedRunWins ==
    /\ latest_comparison = None <=> last_completed.id = 0
    /\ latest_comparison # None =>
        LET snapshot == latest_comparison[1]
            r     == last_completed
            phase == get_current_phase(r.file)
            temps == SelectSeq(r.daily_data, LAMBDA d : d.sensor_type = "temperature")
            gdd   == RoundDiv(Sum([i \in 1..Len(temps) |->
                                       Max({0, temps[i].value[1] - 1000})]), 10)
        IN  /\ r.hourly_data # <<>>
            /\ \A i \in 1..Len(temps) : temps[i].value # None
            /\ snapshot.id = r.id
            /\ snapshot.experiment_day = r.experiment_day
            /\ snapshot.phase = phase.name
            /\ snapshot.accumulated_gdd = gdd
            /\ snapshot.comparisons =
                   compare_with_benchmark(analyze_daily_patterns(r.hourly_data).sensors,
                                          phase, r.experiment_day, gdd)
            /\ snapshot.overall_score = calculate_overall_score(snapshot.comparisons).score
            /\ snapshot.overall_status = calculate_overall_score(snapshot.comparisons).status
            /\ snapshot.recommendation = generate_recommendation(snapshot.comparisons, phase)
    /\ last_ended.outcome \in {"no_data", "error"} => ~last_ended.changed

\* two runs assigned, the second under phase flowering, then a run without
\* hourly data ended: the snapshot is still that of the second run
C8_Witness ==
    /\ latest_comparison # None
    /\ latest_comparison[1].id = 2
    /\ latest_comparison[1].phase = "flowering"
    /\ latest_comparison[1].overall_status = "fair"
    /\ last_ended.outcome = "no_data"
    /\ InProgress = {}

----------------------------------------------------------------------------
(* routes/dashboard.py: get_current_sensors, and ai_engine.py:             *)
(* _generate_response.  Both read the phase once for the response and then *)
(* call analyze_sensor_for_phase for each sensor, which reads              *)
(* current_phase.json again; a step of the model is one read of the file.  *)
(* Readings are in tenths of the sensor's unit.                            *)

\* the sensors both handlers classify, in the order of the loop
sensor_keys == <<"temperature", "humidity", "light", "soil_moisture">>

\* the readings served when the device has sent nothing (dashboard.py 35-42)
dashboard_mock ==
    [temperature |-> Some(275), humidity |-> Some(680), light |-> Some(3500),
     soil_moisture |-> Some(720), ph |-> Some(65), tds |-> Some(4200)]

\* the readings the scheduler hands to the AI engine when the device has sent
\* nothing (scheduler.py 143-150)
scheduler_mock ==
    [temperature |-> Some(280), humidity |-> Some(650), light |-> Some(200000),
     soil_moisture |-> Some(720), ph |-> Some(63), tds |-> Some(11000)]

\* sensor_data: the value of each sensor type that has a record
LiveReadings ==
    {<<>>,
     [temperature |-> Some(260), humidity |-> Some(950), light |-> Some(0),
      ph |-> Some(65), tds |-> Some(4200)],
     [humidity |-> Some(650), soil_moisture |-> Some(50), ph |-> Some(30)],
     [ph |-> Some(65), tds |-> Some(4200)]}

\* the sensor_data a request can hand to the AI engine: a value can be null
RequestReadings ==
    LiveReadings \cup
    {scheduler_mock,
     [temperature |-> None, humidity |-> Some(950), light |-> Some(0),
      soil_moisture |-> None, ph |-> Some(65)]}

\* sensor_data[key]["value"] is there and is not None
HasValue(sensor_data, key) ==
    key \in DOMAIN sensor_data /\ sensor_data[key] # None

\* analyze_sensor_for_phase for a value in tenths: the thresholds of the
\* phase the file names at this call, in tenths as well
analyze_reading(f, sensor_name, value) ==
    LET phase == get_current_phase(f)
        th == [k \in ThresholdKeys |-> 10 * phase[sensor_name][k]]
        r == Classify(th, sensor_name, phase.name, value)
    IN  [status |-> r.status, severity |-> r.severity, phase |-> phase.name]

\* mutant: any warning makes the overall severity a warning
overall_severity_warning_first(severities) ==
    IF "warning" \in severities THEN "warning"
    ELSE IF "critical" \in severities THEN "critical"
    ELSE "normal"

\* AIEngine._get_overall_severity and dashboard.py 61-68
overall_severity(severities) ==
    IF "critical" \in severities THEN "critical"
    ELSE IF "warning" \in severities THEN "warning"
    ELSE "normal"

\* the response built from the handler's locals; the AI engine answers
\* success False without an analysis when the call to OpenRouter gives nothing
ReadingResponse(r, answered) ==
    IF r.handler = "ai_engine" /\ ~answered
    THEN [handler |-> r.handler, success |-> FALSE]
    ELSE [handler |-> r.handler, success |-> TRUE,
          sensors |-> r.sensor_data,
          phase |-> r.phase.name,
          analysis |->
            [sensors |-> r.phase_analysis,
             overall_severity |->
                overall_severity({r.phase_analysis[k].severity :
                                    k \in DOMAIN r.phase_analysis})]]

\* the handler is entered (its response is not there yet): the readings (the
\* mock ones when the dashboard has none), then phase = get_current_phase()
ReadingStart(handler, data) ==
    /\ reading.pc = "idle"
    /\ reading' =
         [pc |-> "analyze", handler |-> handler,
          sensor_data |-> IF handler = "dashboard" /\ data = <<>>
                          THEN dashboard_mock ELSE data,
          is_live |-> data # <<>>,
          phase |-> get_current_phase(phase_file),
          todo |-> sensor_keys,
          phase_analysis |-> [k \in {} |-> <<>>]]
    /\ response' = <<>>
    /\ UNCHANGED <<phase_file, writer, last_ok, call, arg, ret, schedVars,
                   latest_message, message_run>>

\* the loop up to and including the next call of analyze_sensor_for_phase
\* (sensors without a value are passed over), or to the return when no sensor
\* is left
ReadingStep ==
    /\ reading.pc = "analyze"
    /\ LET rest == SelectSeq(reading.todo,
                             LAMBDA k : HasValue(reading.sensor_data, k))
       IN  IF rest = <<>>
           THEN /\ \E answered \in BOOLEAN :
                       response' = ReadingResponse(reading, answered)
                /\ reading' = [pc |-> "idle"]
           ELSE LET key == Head(rest)
                    found == analyze_reading(phase_file, key,
                                             reading.sensor_data[key][1])
                    done == DOMAIN reading.phase_analysis
                IN  /\ reading' =
                         [reading EXCEPT
                            !.todo = Tail(rest),
                            !.phase_analysis =
                               [k \in done \cup {key} |->
                                  IF k = key THEN found
                                  ELSE reading.phase_analysis[k]]]
                    /\ UNCHANGED response
    /\ UNCHANGED <<phase_file, writer, last_ok, call, arg, ret, schedVars,
                   latest_message, message_run>>

----------------------------------------------------------------------------
(* knowledge.py: KnowledgeService.  The plant files are data read at run   *)
(* time; the knowledge of the plant asked for is an input here.            *)

\* one sensor's entry of optimal_conditions
Config(critical_low, min, max, critical_high) ==
    [critical_low |-> critical_low, min |-> min, max |-> max,
     critical_high |-> critical_high]

\* get_plant_knowledge(plant_name): None for a plant without a file, or the
\* file's dict, of which optimal_conditions is kept
PlantKnowledge ==
    {None,
     Some([temperature |-> Config(Some(10), Some(20), Some(30), Some(40)),
           humidity |-> Config(None, Some(50), Some(80), None)]),
     Some([temperature |-> Config(Some(10), Some(20), Some(30), Some(40))])}

\* the sensor_data handed to analyze_all_sensors: a value or null per sensor
KnowledgeValues == {None, Some(5), Some(15), Some(25), Some(35), Some(45)}

KnowledgeReadings ==
    UNION {[keys -> KnowledgeValues] : keys \in SUBSET {"temperature", "humidity"}}

\* KnowledgeService.analyze_sensor_reading for a value that is not None
analyze_sensor_reading(plant, sensor_type, value) ==
    IF plant = None
    THEN [status |-> "error", message |-> "Unknown plant"]
    ELSE IF sensor_type \notin DOMAIN plant[1]
    THEN [status |-> "error", message |-> "Unknown sensor type"]
    ELSE LET sensor_config == plant[1][sensor_type]
             below(limit) == limit # None /\ value < limit[1]
             above(limit) == limit # None /\ value > limit[1]
         IN  IF below(sensor_config.critical_low)
             THEN Result("critical_low", "critical")
             ELSE IF below(sensor_config.min) THEN Result("low", "warning")
             ELSE IF above(sensor_config.critical_high)
             THEN Result("critical_high", "critical")
             ELSE IF above(sensor_config.max) THEN Result("high", "warning")
             ELSE Result("normal", "normal")

\* the entry analyze_all_sensors stores for a sensor
KnowledgeEntry(plant, sensor_type, value) ==
    IF value = None
    THEN [status |-> "error", severity |-> "warning",
          message |-> "Sensor reading unavailable"]
    ELSE analyze_sensor_reading(plant, sensor_type, value[1])

\* KnowledgeService.analyze_all_sensors: the loop raises overall_severity
\* only after a sensor that has a value
analyze_all_sensors(plant, sensor_data) ==
    LET results == [k \in DOMAIN sensor_data |->
                       KnowledgeEntry(plant, k, sensor_data[k])]
        counted == {results[k].severity :
                      k \in {s \in DOMAIN sensor_data :
                               /\ sensor_data[s] # None
                               /\ "severity" \in DOMAIN results[s]}}
    IN  [handler |-> "knowledge",
         overall_severity |-> overall_severity(counted),
         sensors |-> results]

\* a call of analyze_all_sensors
CallAnalyzeAllSensors(plant, sensor_data) ==
    /\ reading.pc = "idle"
    /\ response' = analyze_all_sensors(plant, sensor_data)
    /\ UNCHANGED <<phase_file, writer, last_ok, call, arg, ret, schedVars,
                   reading, latest_message, message_run>>

\* the server with a record left on disk by an earlier run, serving sensor
\* readings while update_phase runs in another process
InitReading ==
    /\ phase_file \in FileContents
    /\ writer = Idle
    /\ last_ok = IF phase_file \in DOMAIN PHASE_DATA THEN phase_file ELSE ""
    /\ call = NoCall
    /\ arg = NoArg
    /\ ret = NotCalled
    /\ SchedulerInit
    /\ LiveInit

\* the phases update_phase is given while readings are served
ReadingPhases == {"germination", "vegetative"}

NextReading ==
    \/ \E data \in LiveReadings : ReadingStart("dashboard", data)
    \/ \E data \in RequestReadings : ReadingStart("ai_engine", data)
    \/ ReadingStep
    \/ \E name \in ReadingPhases : UpdatePhaseOpen("service", name)
    \/ UpdatePhaseDump
    \/ \E plant \in PlantKnowledge, sensor_data \in KnowledgeReadings :
          CallAnalyzeAllSensors(plant, sensor_data)

SpecReading == InitReading /\ [][NextReading]_vars

----------------------------------------------------------------------------
(* The overall severity: C23 *)

\* s.get("severity", "normal") of every per-sensor result
SeveritiesOf(results) ==
    {IF "severity" \in DOMAIN results[k] THEN results[k].severity ELSE "normal" :
        k \in DOMAIN results}

SeverityRank(severity) ==
    CASE severity = "normal" -> 0 [] severity = "warning" -> 1 [] severity = "critical" -> 2

\* the response reports an overall severity over these per-sensor results
Reported ==
    IF response = <<>> THEN <<>>
    ELSE IF response.handler = "knowledge"
    THEN <<[overall_severity |-> response.overall_severity, sensors |-> response.sensors]>>
    ELSE IF response.success THEN <<response.analysis>>
    ELSE <<>>

\* C23: the overall severity of a dashboard reading, an AI engine analysis and
\* an analyze_all_sensors result is the worst severity (normal < warning <
\* critical) among the per-sensor results of that result, the entries of
\* unavailable readings included.
C23_OverallIsWorst ==
    \A r \in Range(Reported) :
        /\ \A s \in SeveritiesOf(r.sensors) :
               SeverityRank(s) <= SeverityRank(r.overall_severity)
        /\ r.overall_severity \in SeveritiesOf(r.sensors) \cup {"normal"}

\* the same, for the dashboard and the AI engine alone
C23_LiveOverallIsWorst ==
    (response # <<>> /\ response.handler # "knowledge") => C23_OverallIsWorst

----------------------------------------------------------------------------
(* One phase per reading: C25 *)

\* C25: in the response of a dashboard sensor reading or an AI engine
\* analysis, every sensor was classified against the thresholds of the phase
\* the response names, whatever update_phase does meanwhile.
C25_OnePhasePerReading ==
    (response # <<>> /\ "analysis" \in DOMAIN response) =>
        \A k \in DOMAIN response.analysis.sensors :
            response.analysis.sensors[k].phase = response.phase

----------------------------------------------------------------------------
(* The order of the thresholds: C24 *)

\* C24: the thresholds of the phase that get_current_phase hands to a reading
\* are ordered, critical_low <= low <= optimal_min <= optimal_max <= high <=
\* critical_high, for temperature, humidity, light and soil moisture.
C24_ThresholdsOrdered ==
    reading.pc = "analyze" =>
        \A s \in sensor_key_map : Ordered(reading.phase[s])

C24_Witness ==
    /\ reading.pc = "analyze"
    /\ reading.phase.name = "fruiting"
    /\ phase_file = "fruiting"

----------------------------------------------------------------------------
(* scheduler.py: generate_scheduled_message.  The coroutine has no await,   *)
(* so a run is one step of the event loop.  A run is told apart by its id;  *)
(* the text, the analysis and the audio file a run produces carry it.       *)

MaxMessages == 3

message_types == {"greeting_morning", "greeting_night", "report"}

\* how a collaborator's call ends: a result, a failure reported in the result
\* (success False, no file name), or an exception
Outcomes == {"ok", "fails", "raises"}

\* what run id gets from the AI engine and from the text-to-speech service
TextOf(id) == <<"text", id>>
AnalysisOf(id) == <<"analysis", id>>
AudioOf(id) == <<"audio", id>>

\* PlantScheduler._get_latest_sensor_data: the readings, or the mock ones
\* when there are none or the query raises
_get_latest_sensor_data(data) == IF data = <<>> THEN scheduler_mock ELSE data

\* mutant: the message is stored before the speech is generated
generate_scheduled_message_before_speech(latest, id, message_type, data, ai, tts) ==
    IF ai # "ok" THEN latest
    ELSE [id           |-> id,
          message_type |-> message_type,
          text         |-> TextOf(id),
          audio_file   |-> IF tts = "ok" THEN AudioOf(id) ELSE <<>>,
          sensor_data  |-> _get_latest_sensor_data(data),
          analysis     |-> AnalysisOf(id)]

\* PlantScheduler.generate_scheduled_message: self.latest_message after run
\* id, which found latest
generate_scheduled_message(latest, id, message_type, data, ai, tts) ==
    IF ai # "ok" \/ tts # "ok" THEN latest
    ELSE [id           |-> id,
          message_type |-> message_type,
          text         |-> TextOf(id),
          audio_file   |-> AudioOf(id),
          sensor_data  |-> _get_latest_sensor_data(data),
          analysis     |-> AnalysisOf(id)]

\* PlantScheduler.get_latest_message
get_latest_message == latest_message

\* a run of generate_scheduled_message, by the scheduler or the trigger route;
\* the speech is asked for only after the AI engine has answered
GenerateScheduledMessage(message_type, data, ai, tts) ==
    /\ message_run.id < MaxMessages
    /\ ai # "ok" => tts = "ok"
    /\ LET id == message_run.id + 1
       IN  /\ latest_message' = generate_scheduled_message(latest_message, id,
                                    message_type, data, ai, tts)
           /\ message_run' = [id |-> id, message_type |-> message_type,
                              ai |-> ai, tts |-> IF ai = "ok" THEN tts ELSE "not called",
                              before |-> latest_message]
    /\ UNCHANGED <<phase_file, writer, last_ok, call, arg, ret, schedVars,
                   reading, response>>

\* the readings of the device when a message is due
MessageReadings ==
    {<<>>, [temperature |-> Some(260), humidity |-> Some(950), ph |-> Some(65)]}

InitMessages ==
    /\ phase_file = NoFile
    /\ writer = Idle
    /\ last_ok = ""
    /\ call = NoCall
    /\ arg = NoArg
    /\ ret = NotCalled
    /\ SchedulerInit
    /\ LiveInit

NextMessages ==
    \E message_type \in message_types, data \in MessageReadings,
       ai \in Outcomes, tts \in Outcomes :
        GenerateScheduledMessage(message_type, data, ai, tts)

SpecMessages == InitMessages /\ [][NextMessages]_vars

----------------------------------------------------------------------------
(* The latest message: C28 *)

MessageRunEnded == message_run.id > 0

BothSucceeded == message_run.ai = "ok" /\ message_run.tts = "ok"

\* C28: a run of generate_scheduled_message replaces the latest message only
\* when the AI generation and the text-to-speech step both succeeded; when
\* either failed or raised, get_latest_message returns what it returned
\* before the run; and the message of a run that replaced it has the text and
\* the audio file of that run.
C28_LatestMessage ==
    MessageRunEnded =>
        /\ get_latest_message # message_run.before => BothSucceeded
        /\ ~BothSucceeded => get_latest_message = message_run.before
        /\ BothSucceeded =>
              /\ get_latest_message.id = message_run.id
              /\ get_latest_message.text = TextOf(message_run.id)
              /\ get_latest_message.audio_file = AudioOf(message_run.id)

\* the text and the audio file of a message always come from one run
C28_SameRun ==
    get_latest_message # <<>> =>
        \E id \in 1..MaxMessages :
            /\ get_latest_message.text = TextOf(id)
            /\ get_latest_message.audio_file = AudioOf(id)

\* a message was stored by the first run and kept by a second run whose
\* speech failed
C28_Witness ==
    /\ message_run.id = 2
    /\ message_run.ai = "ok"
    /\ message_run.tts = "fails"
    /\ get_latest_message # <<>>
    /\ get_latest_message.id = 1
    /\ get_latest_message.audio_file = AudioOf(1)

====
